---- MODULE Spec2Model ----
(***************************************************************************)
(* Model of the status plugin's frontmatter engine (extractFrontmatter,    *)
(* convertToMarkdown) and of the setStatus handler that drives it.         *)
(*                                                                         *)
(* Text is a sequence of tokens.  The hyphen, the newline, the space and   *)
(* the punctuation of the YAML subset are single-character tokens, so the  *)
(* offsets the code computes (startsWith, indexOf from 4, slice to         *)
(* endDelimiter + 5) mean the same here; a word (a key, a scalar, a body   *)
(* word) is one opaque token.                                              *)
(*                                                                         *)
(* The calls into the `yaml` package (parseDocument, toJSON, setIn,        *)
(* toString, createNode) are modelled by what the package does on the      *)
(* block-mapping subset the documents below are drawn from.                *)
(*                                                                         *)
(* The second half models the IGDB client (rankGamesByPlayedCount,         *)
(* fetchGameMetadata with its retry loop, fetchGameThumbnail,              *)
(* requestIgdbAccessToken) and the plugin's cached credential              *)
(* (ensureIgdbAccessToken, clearIgdbTokenCache, the two credential         *)
(* setters of the settings tab).  Each part has its own specification:     *)
(* Spec, SpecRank, SpecClient and SpecCredential; a specification leaves   *)
(* the variables of the other parts at rest.                               *)
(***************************************************************************)
EXTENDS Integers, Sequences, FiniteSets, TLC

VARIABLES file, active, input, data, out, pc, err, handler, nmut, nruns

\* the IGDB client (igdb.ts): the call in progress, its position, the loop
\* counter of fetchGameMetadata, the times its requests were sent, what each
\* request came back with, the delays it awaited, the time its pending delay
\* ends, the value it returned; and the time (Date.now(), milliseconds)
VARIABLES call, cpc, attempt, sent, seen, waits, wakeAt, result, clock

\* the plugin's cached IGDB credential (main.ts): the settings, the cache,
\* the ensureIgdbAccessToken calls in progress, the settings-tab handler in
\* progress, the tokens the token endpoint has issued and for which
\* credentials, and whether clearIgdbTokenCache ran since the last call of
\* ensureIgdbAccessToken
VARIABLES settings, igdbToken, ensure, setter, issued, cleared

\* the rest of the plugin (main.ts, igdb.ts): the search request being built
\* from a name; the body text upsertCoverImage is applied to and what it
\* returned
VARIABLES query, coverCall

\* refreshing thumbnails (main.ts): what is at the path of the games folder,
\* the text of every note, the refresh command in progress, the calls of
\* updateGameNoteThumbnail it made, the search requests sent, the setStatus
\* call in progress, and the writes made to notes
VARIABLES tree, notes, batch, jobs, requests, statusCall, written

\* creating notes (main.ts): what is at the path of the target folder, the
\* paths of the files in it, and the calls that create a note
VARIABLES vaultFolder, vaultFiles, creates

docVars == <<file, active, input, data, out, pc, err, handler, nmut, nruns>>
clientVars == <<call, cpc, attempt, sent, seen, waits, wakeAt, result>>
credVars == <<settings, igdbToken, ensure, setter, issued, cleared>>
batchVars == <<tree, notes, batch, jobs, requests, statusCall, written>>
createVars == <<vaultFolder, vaultFiles, creates>>
pluginVars == <<query, coverCall, batchVars, createVars>>

vars == <<docVars, clientVars, credVars, pluginVars, clock>>

(* ------------------------------ bounds -------------------------------- *)

\* lines in a generated metadata block
MaxLines == 2
\* property assignments / deletions between a parse and a serialize
MaxMutations == 2
\* setStatus invocations on the active file
MaxRuns == 2

(* --------------------------- JS string helpers ------------------------ *)

NL == "\n"
SP == " "
HY == "-"

\* "---\n"
OpenDelimiter == <<HY, HY, HY, NL>>
\* "\n---\n"
CloseDelimiter == <<NL, HY, HY, HY, NL>>

SetMin(S) == CHOOSE x \in S : \A y \in S : x <= y
SetMax(S) == CHOOSE x \in S : \A y \in S : x >= y

\* String.prototype.startsWith
StartsWith(s, p) == Len(s) >= Len(p) /\ SubSeq(s, 1, Len(p)) = p

\* String.prototype.indexOf(p, from): 0-based offset of the first occurrence
\* of p at or after offset from, -1 when there is none
IndexOf(s, p, from) ==
    LET hits == { i \in from .. (Len(s) - Len(p)) : SubSeq(s, i + 1, i + Len(p)) = p }
    IN  IF hits = {} THEN -1 ELSE SetMin(hits)

\* String.prototype.slice(a, b) with 0-based, end-exclusive offsets
Slice(s, a, b) == SubSeq(s, a + 1, b)

\* String.prototype.slice(a)
SliceFrom(s, a) == SubSeq(s, a + 1, Len(s))

IsSpace(c) == c \in {SP, NL}

\* String.prototype.trim
Trim(s) ==
    LET keep == { i \in 1 .. Len(s) : ~IsSpace(s[i]) }
    IN  IF keep = {} THEN <<>> ELSE SubSeq(s, SetMin(keep), SetMax(keep))

RECURSIVE Concat(_)
\* the concatenation of a sequence of texts
Concat(ss) == IF ss = <<>> THEN <<>> ELSE Head(ss) \o Concat(Tail(ss))

RECURSIVE SplitLines(_)
\* the lines of a text (split at every newline)
SplitLines(s) ==
    LET i == IndexOf(s, <<NL>>, 0)
    IN  IF i = -1 THEN <<s>>
        ELSE <<Slice(s, 0, i)>> \o SplitLines(SliceFrom(s, i + 1))

(* ------------------------------ JS values ----------------------------- *)

\* tokens that the YAML core schema resolves to a number when plain
NumberTokens == {"1", "2"}

JsNull == [t |-> "null"]
JsNum(w) == [t |-> "num", v |-> w]
JsStr(w) == [t |-> "str", v |-> w]
\* a plain object: its own properties in insertion order
JsObj(pairs) == [t |-> "map", pairs |-> pairs]
\* an array: its elements, and the named properties assigned to it
JsArr(items, props) == [t |-> "seq", items |-> items, props |-> props]

\* {} as in `frontmatter: {}`
EmptyObject == JsObj(<<>>)

IsPrimitive(x) == x.t \in {"num", "str"}

PairIndex(pairs, k) == { i \in 1 .. Len(pairs) : pairs[i].k = k }

\* obj[k] = v on an ordered property list: an existing property keeps its
\* place, a new one is appended
PutPair(pairs, k, v) ==
    IF PairIndex(pairs, k) = {}
    THEN Append(pairs, [k |-> k, v |-> v])
    ELSE [ i \in 1 .. Len(pairs) |-> IF pairs[i].k = k THEN [k |-> k, v |-> v] ELSE pairs[i] ]

\* delete obj[k]
DropPair(pairs, k) == SelectSeq(pairs, LAMBDA p : p.k # k)

\* Object.keys(x).length
KeyCount(x) ==
    CASE x.t = "map" -> Len(x.pairs)
      [] x.t = "seq" -> Len(x.items) + Len(x.props)
      [] x.t = "str" -> 1
      [] OTHER -> 0

(* --------------------------- the yaml package ------------------------- *)

IsBlankLine(l) == \A i \in 1 .. Len(l) : l[i] = SP
IsCommentLine(l) == Len(l) >= 1 /\ l[1] = "#"
IsContentLine(l) == ~IsBlankLine(l) /\ ~IsCommentLine(l)
IsSeqItemLine(l) == Len(l) >= 3 /\ l[1] = HY /\ l[2] = SP
IsPairLine(l) == Len(l) >= 4 /\ l[2] = ":" /\ l[3] = SP /\ l[1] \notin {HY, "#", SP}
IsScalarLine(l) == Len(l) = 1 /\ l[1] \notin {HY, "#", SP, ":"}

\* the scalar or alias node of the tokens vt, with the comment that follows
\* it on its line
ValueNode(vt, comment) ==
    CASE Len(vt) = 1 /\ vt[1] \notin {"'", "\"", "*"} ->
            [kind |-> "scalar", style |-> "PLAIN", comment |-> comment,
             value |-> IF vt[1] \in NumberTokens THEN JsNum(vt[1]) ELSE JsStr(vt[1])]
      [] Len(vt) = 3 /\ vt[1] = "'" /\ vt[3] = "'" ->
            [kind |-> "scalar", style |-> "QUOTE_SINGLE", comment |-> comment,
             value |-> JsStr(vt[2])]
      [] Len(vt) = 3 /\ vt[1] = "\"" /\ vt[3] = "\"" ->
            [kind |-> "scalar", style |-> "QUOTE_DOUBLE", comment |-> comment,
             value |-> JsStr(vt[2])]
      [] Len(vt) = 2 /\ vt[1] = "*" ->
            [kind |-> "alias", source |-> vt[2]]
      [] OTHER -> [kind |-> "invalid"]

\* the value node of a `key: value # comment` line
PairValueNode(l) ==
    LET rest == SubSeq(l, 4, Len(l))
        ci == IndexOf(rest, <<SP, "#">>, 0)
    IN  IF ci = -1 THEN ValueNode(rest, <<>>)
        ELSE ValueNode(Slice(rest, 0, ci), SliceFrom(rest, ci + 1))

\* the comment and blank lines between content line i's predecessor and it
LinesBefore(lines, i) ==
    LET prev == { j \in 1 .. (i - 1) : IsContentLine(lines[j]) }
        from == IF prev = {} THEN 1 ELSE SetMax(prev) + 1
    IN  SubSeq(lines, from, i - 1)

\* composer's getPrelude: the comment before the first node goes to the
\* document when an empty line follows it (or when there is no node at all)
PreludeToDocument(lines) ==
    LET content == { i \in 1 .. Len(lines) : IsContentLine(lines[i]) }
        prelude == IF content = {} THEN lines ELSE SubSeq(lines, 1, SetMin(content) - 1)
        comments == { i \in 1 .. Len(prelude) : IsCommentLine(prelude[i]) }
    IN  IF comments = {} THEN <<>>
        ELSE IF content = {}
                \/ \E j \in (SetMax(comments) + 1) .. Len(prelude) : IsBlankLine(prelude[j])
             THEN SelectSeq(prelude, IsCommentLine)
             ELSE <<>>

\* the Pair node of content line i of a block mapping: the key, the value
\* node (with its quoting style and comment) and the empty line before it
PairNode(lines, i) ==
    LET before == LinesBefore(lines, i)
    IN  [key |-> lines[i][1],
         value |-> PairValueNode(lines[i]),
         spaceBefore |-> \E j \in 1 .. Len(before) : IsBlankLine(before[j])]

\* yaml.parseDocument(src, {keepSourceTokens: true}): never throws on a syntax
\* error, it records it in doc.errors
ParseDocument(src) ==
    LET lines == SplitLines(src)
        content == { i \in 1 .. Len(lines) : IsContentLine(lines[i]) }
        idx == [ n \in 1 .. Cardinality(content) |->
                   CHOOSE i \in content : Cardinality({ j \in content : j < i }) = n - 1 ]
        cb == PreludeToDocument(lines)
    IN  CASE content = {} ->
               [contents |-> [kind |-> "null"], errors |-> FALSE, commentBefore |-> cb]
          [] content # {} /\ \A i \in content : IsPairLine(lines[i]) ->
               LET items == [ n \in 1 .. Cardinality(content) |-> PairNode(lines, idx[n]) ]
               IN  [contents |-> [kind |-> "map", items |-> items],
                    \* uniqueKeys: "Map keys must be unique"
                    errors |-> \/ \E m, n \in 1 .. Len(items) : m # n /\ items[m].key = items[n].key
                               \/ \E n \in 1 .. Len(items) : items[n].value.kind = "invalid",
                    commentBefore |-> cb]
          [] content # {} /\ \A i \in content : IsSeqItemLine(lines[i]) ->
               [contents |-> [kind |-> "seq",
                              items |-> [ n \in 1 .. Cardinality(content) |->
                                            ValueNode(SubSeq(lines[idx[n]], 3, Len(lines[idx[n]])), <<>>) ]],
                errors |-> FALSE, commentBefore |-> cb]
          [] Cardinality(content) = 1 /\ \A i \in content : IsScalarLine(lines[i]) ->
               [contents |-> ValueNode(lines[idx[1]], <<>>), errors |-> FALSE, commentBefore |-> cb]
          [] OTHER ->
               \* anything else is outside the modelled subset: a document with errors
               [contents |-> [kind |-> "null"], errors |-> TRUE, commentBefore |-> cb]

\* Alias.toJSON throws a ReferenceError for an alias whose anchor is not set
NodeThrows(node) ==
    CASE node.kind = "alias" -> TRUE
      [] node.kind = "map" -> \E n \in 1 .. Len(node.items) : node.items[n].value.kind = "alias"
      [] node.kind = "seq" -> \E n \in 1 .. Len(node.items) : node.items[n].kind = "alias"
      [] OTHER -> FALSE

ToJSONThrows(doc) == NodeThrows(doc.contents)

ScalarToJS(node) == IF node.kind = "scalar" THEN node.value ELSE JsNull

RECURSIVE PairsToJS(_, _)
\* Pair.addPairToJSMap over the items: map[key] = value, in item order
PairsToJS(items, acc) ==
    IF items = <<>> THEN acc
    ELSE PairsToJS(Tail(items), PutPair(acc, Head(items).key, ScalarToJS(Head(items).value)))

\* Document.toJSON(): the plain-value snapshot (null for an empty document)
ToJSON(doc) ==
    LET c == doc.contents
    IN  CASE c.kind = "map" -> JsObj(PairsToJS(c.items, <<>>))
          [] c.kind = "seq" -> JsArr([ n \in 1 .. Len(c.items) |-> ScalarToJS(c.items[n]) ], <<>>)
          [] c.kind = "scalar" -> c.value
          [] OTHER -> JsNull

\* Document.setIn([], value): with an empty path the document's contents are
\* replaced by the value itself
SetInRoot(doc, value) == [doc EXCEPT !.contents = [kind |-> "js", value |-> value]]

\* new yaml.Document() with contents = createNode(value)
NewDocument(value) ==
    [contents |-> [kind |-> "js", value |-> value], errors |-> FALSE, commentBefore |-> <<>>]

\* stringifyString with the default PLAIN type: a string that would resolve
\* to another type when plain is double-quoted
StringifyScalar(x) ==
    CASE x.t = "null" -> <<"null">>
      [] x.t = "num" -> <<x.v>>
      [] x.t = "str" /\ x.v \in NumberTokens -> <<"\"", x.v, "\"">>
      [] OTHER -> <<x.v>>

\* the lines of createNode(value) stringified with the default options
StringifyValue(x) ==
    CASE x.t = "map" /\ x.pairs = <<>> -> << <<"{}">> >>
      [] x.t = "map" ->
            [ n \in 1 .. Len(x.pairs) |->
                <<x.pairs[n].k, ":", SP>> \o StringifyScalar(x.pairs[n].v) ]
      [] x.t = "seq" /\ x.items = <<>> -> << <<"[]">> >>
      [] x.t = "seq" ->
            \* createNode of an array iterates its elements only
            [ n \in 1 .. Len(x.items) |-> <<HY, SP>> \o StringifyScalar(x.items[n]) ]
      [] OTHER -> << StringifyScalar(x) >>

\* Document.toString() throws for a document with errors
ToStringThrows(doc) == doc.errors

\* Document.toString() of a document whose contents are a plain value (as
\* after setIn([], value) or createNode): commentBefore and an empty line,
\* then the value with the default options; every line ends in a newline
DocToString(doc) ==
    LET lines == (IF doc.commentBefore # <<>> THEN doc.commentBefore \o << <<>> >> ELSE <<>>)
                 \o StringifyValue(doc.contents.value)
    IN  Concat([ n \in 1 .. Len(lines) |-> lines[n] \o <<NL>> ])

(* ------------------------- the frontmatter engine --------------------- *)

\* `originalYaml` left undefined
Absent == [contents |-> [kind |-> "absent"], errors |-> FALSE, commentBefore |-> <<>>]

DocumentData(frontmatter, content, originalYaml) ==
    [frontmatter |-> frontmatter, content |-> content, originalYaml |-> originalYaml]

\* extractFrontmatter(markdown)
ExtractFrontmatter(markdown) ==
    LET defaultResult == DocumentData(EmptyObject, markdown, Absent)
        endDelimiter == IndexOf(markdown, CloseDelimiter, 4)
        yamlContent == Slice(markdown, 4, endDelimiter)
        yamlDocument == ParseDocument(yamlContent)
    IN  IF ~StartsWith(markdown, OpenDelimiter) THEN defaultResult
        ELSE IF endDelimiter = -1 THEN defaultResult
        ELSE IF ToJSONThrows(yamlDocument) THEN defaultResult
        ELSE DocumentData(ToJSON(yamlDocument),
                          Trim(SliceFrom(markdown, endDelimiter + 5)),
                          yamlDocument)

\* the emptiness test without its Object.keys(...).length === 0 half
NoFrontmatterNullOnly(doc) == doc.frontmatter.t = "null"

\* !data.frontmatter || Object.keys(data.frontmatter).length === 0
NoFrontmatter(doc) == doc.frontmatter.t = "null" \/ KeyCount(doc.frontmatter) = 0

\* the yaml.Document that convertToMarkdown stringifies
RenderedDocument(doc) ==
    IF doc.originalYaml # Absent
    THEN SetInRoot(doc.originalYaml, doc.frontmatter)
    ELSE NewDocument(doc.frontmatter)

\* convertToMarkdown(data) raises (toString of a document with errors)
ConvertThrows(doc) == ~NoFrontmatter(doc) /\ ToStringThrows(RenderedDocument(doc))

\* convertToMarkdown with the emptiness test applied only when there is no
\* original document: a parsed block is rendered even when it has no keys left
ConvertToMarkdownKeepsBlock(doc) ==
    IF doc.originalYaml = Absent /\ (doc.frontmatter.t = "null" \/ KeyCount(doc.frontmatter) = 0)
    THEN doc.content
    ELSE OpenDelimiter
         \o DocToString(IF doc.originalYaml # Absent
                         THEN SetInRoot(doc.originalYaml, doc.frontmatter)
                         ELSE NewDocument(doc.frontmatter))
         \o <<HY, HY, HY, NL, NL>> \o doc.content

\* convertToMarkdown(data), when it returns
ConvertToMarkdown(doc) ==
    IF NoFrontmatter(doc) THEN doc.content
    ELSE OpenDelimiter \o DocToString(RenderedDocument(doc)) \o <<HY, HY, HY, NL, NL>> \o doc.content

\* the DocumentData after convertToMarkdown: setIn has replaced the contents
\* of the original document
AfterConvert(doc) ==
    IF ~NoFrontmatter(doc) /\ doc.originalYaml # Absent
    THEN [doc EXCEPT !.originalYaml = SetInRoot(doc.originalYaml, doc.frontmatter)]
    ELSE doc

(* ------------------ assignments to data.frontmatter ------------------- *)

\* whether the bundle runs as strict-mode code is decided by the build and
\* shows only when a property of a primitive is assigned
StrictModes(fm) == IF IsPrimitive(fm) THEN BOOLEAN ELSE {TRUE}

\* data.frontmatter[k] = v raises: always on null, and on a primitive when
\* the bundle is strict-mode code
AssignThrows(fm, strict) == fm.t = "null" \/ (IsPrimitive(fm) /\ strict)

\* data.frontmatter[k] = v, when it does not raise
AssignKey(fm, k, v) ==
    CASE fm.t = "map" -> JsObj(PutPair(fm.pairs, k, v))
      [] fm.t = "seq" -> JsArr(fm.items, PutPair(fm.props, k, v))
      [] OTHER -> fm

\* delete data.frontmatter[k] raises on null
DeleteThrows(fm) == fm.t = "null"

\* delete data.frontmatter[k]
DeleteKey(fm, k) ==
    CASE fm.t = "map" -> JsObj(DropPair(fm.pairs, k))
      [] fm.t = "seq" -> JsArr(fm.items, DropPair(fm.props, k))
      [] OTHER -> fm

(* --------------------------- documents read --------------------------- *)

\* the lines a metadata block is built from: a plain number, the same with a
\* comment, a single-quoted string, a double-quoted string that would read
\* as a number when plain, an existing status, an alias without an anchor,
\* and the empty line
MappingLines ==
    { <<"foo", ":", SP, "1">>,
      <<"foo", ":", SP, "1", SP, "#", "note">>,
      <<"bar", ":", SP, "'", "a", "'">>,
      <<"bar", ":", SP, "\"", "2", "\"">>,
      <<"status", ":", SP, "old">>,
      <<"foo", ":", SP, "*", "x">>,
      <<>> }

\* blocks that are not a mapping: only a comment, a sequence, a bare string,
\* a bare number
OtherBlocks ==
    { << <<"#", "note">> >>, << <<HY, SP, "a">> >>, << <<"a">> >>, << <<"1">> >> }

LinesUpTo(n) == UNION { [1 .. k -> MappingLines] : k \in 0 .. n }

Blocks == LinesUpTo(MaxLines) \cup OtherBlocks

\* what follows the closing "---": nothing (the file ends there), a newline,
\* a body, a body set off by whitespace, a body that itself begins with a
\* delimited block
Tails ==
    { <<>>, <<NL>>, <<NL, "Hello">>, <<NL, NL, "Hello", SP, "world", NL>>,
      <<NL, HY, HY, HY, NL, "foo", ":", SP, "1", NL, HY, HY, HY, NL, "Hello">> }

\* "---\n", each line with its newline, "---", the tail
BlockDocument(block, tail) ==
    OpenDelimiter \o Concat([ n \in 1 .. Len(block) |-> block[n] \o <<NL>> ]) \o <<HY, HY, HY>> \o tail

\* documents with no delimited block at offset 0
PlainDocuments ==
    { <<>>, <<"Hello">>, <<SP, "Hello", NL>>, <<HY, HY, HY>>,
      OpenDelimiter \o <<"foo", ":", SP, "1", NL>>,
      <<NL>> \o BlockDocument(<< <<"foo", ":", SP, "1">> >>, <<NL, "Hello">>),
      <<"Hello", NL>> \o BlockDocument(<< <<"foo", ":", SP, "1">> >>, <<NL>>) }

Documents == { BlockDocument(b, t) : b \in Blocks, t \in Tails } \cup PlainDocuments

\* the configured status names offered by the picker
StatusNames == {"complete", "backlog"}
\* datefns.format(new Date(), dateFormat)
FormattedDates == {"2026-11-02"}

\* keys and values a caller of the engine assigns
CallerKeys == {"foo", "status"}
CallerValues == {JsStr("1")}
\* keys a caller of the engine removes
RemovableKeys == {"foo", "bar", "status"}

(* ------------------------------- state -------------------------------- *)

\* "Cannot set properties of null", "Cannot create property ... on string"
TypeError == "TypeError"
\* "Document with errors cannot be stringified"
StringifyError == "Error"

NoData == DocumentData(JsNull, <<>>, Absent)

TypeOK ==
    /\ pc \in {"idle", "parsed", "converted", "written", "returned", "threw"}
    /\ err \in {"none", TypeError, StringifyError}
    /\ handler \in {"none", "engine", "setStatus"}
    /\ nmut \in 0 .. MaxMutations
    /\ nruns \in 0 .. MaxRuns
    /\ active \in BOOLEAN

\* no call into the IGDB client is in progress
ClientIdle ==
    /\ call = [op |-> "none"]
    /\ cpc = "idle"
    /\ attempt = 0
    /\ sent = <<>>
    /\ seen = <<>>
    /\ waits = <<>>
    /\ wakeAt = 0
    /\ result = [kind |-> "pending"]

\* no credentials are configured, nothing is cached, no handler is running
CredIdle ==
    /\ settings = [igdbClientId |-> <<>>, igdbClientSecret |-> <<>>]
    /\ igdbToken = JsNull
    /\ ensure = <<>>
    /\ setter = [pc |-> "idle", changes |-> 0, failed |-> FALSE]
    /\ issued = <<>>
    /\ cleared = FALSE

\* no search request is being built
QueryIdle == query = [pc |-> "none"]

\* upsertCoverImage is not being applied
CoverIdle == coverCall = [pc |-> "none"]

\* no refresh command is running
BatchIdle ==
    /\ tree = JsNull
    /\ notes = <<>>
    /\ batch = [pc |-> "none"]
    /\ jobs = <<>>
    /\ requests = <<>>
    /\ statusCall = [pc |-> "none"]
    /\ written = <<>>

\* no note is being created
CreateIdle ==
    /\ vaultFolder = "absent"
    /\ vaultFiles = {}
    /\ creates = <<>>

\* the rest of the plugin at rest
PluginIdle ==
    /\ QueryIdle
    /\ CoverIdle
    /\ BatchIdle
    /\ CreateIdle

\* no note is open and no frontmatter call is in progress
DocIdle ==
    /\ active = FALSE
    /\ file = <<>>
    /\ input = <<>>
    /\ data = NoData
    /\ out = <<>>
    /\ pc = "idle"
    /\ err = "none"
    /\ handler = "none"
    /\ nmut = 0
    /\ nruns = 0

\* the text of the active file, or no active file at all
Init ==
    /\ \/ active = TRUE /\ file \in Documents
       \/ active = FALSE /\ file = <<>>
    /\ input = <<>>
    /\ data = NoData
    /\ out = <<>>
    /\ pc = "idle"
    /\ err = "none"
    /\ handler = "none"
    /\ nmut = 0
    /\ nruns = 0
    /\ ClientIdle
    /\ CredIdle
    /\ PluginIdle
    /\ clock = 0

\* a caller passes the text of the file to extractFrontmatter
Parse ==
    /\ pc = "idle"
    /\ active
    /\ input' = file
    /\ data' = ExtractFrontmatter(file)
    /\ pc' = "parsed"
    /\ handler' = "engine"
    /\ UNCHANGED <<file, active, out, err, nmut, nruns>>

\* the caller assigns data.frontmatter[k] = v
Assign(k, v, strict) ==
    /\ pc = "parsed"
    /\ handler = "engine"
    /\ nmut < MaxMutations
    /\ nmut' = nmut + 1
    /\ IF AssignThrows(data.frontmatter, strict)
       THEN pc' = "threw" /\ err' = TypeError /\ UNCHANGED data
       ELSE /\ data' = [data EXCEPT !.frontmatter = AssignKey(data.frontmatter, k, v)]
            /\ UNCHANGED <<pc, err>>
    /\ UNCHANGED <<file, active, input, out, handler, nruns>>

\* the caller removes data.frontmatter[k]
Remove(k) ==
    /\ pc = "parsed"
    /\ handler = "engine"
    /\ nmut < MaxMutations
    /\ nmut' = nmut + 1
    /\ IF DeleteThrows(data.frontmatter)
       THEN pc' = "threw" /\ err' = TypeError /\ UNCHANGED data
       ELSE /\ data' = [data EXCEPT !.frontmatter = DeleteKey(data.frontmatter, k)]
            /\ UNCHANGED <<pc, err>>
    /\ UNCHANGED <<file, active, input, out, handler, nruns>>

\* the caller passes the data to convertToMarkdown
Serialize ==
    /\ pc = "parsed"
    /\ handler = "engine"
    /\ IF ConvertThrows(data)
       THEN pc' = "threw" /\ err' = StringifyError /\ UNCHANGED <<out, data>>
       ELSE /\ pc' = "converted"
            /\ out' = ConvertToMarkdown(data)
            /\ data' = AfterConvert(data)
            /\ UNCHANGED err
    /\ UNCHANGED <<file, active, input, handler, nmut, nruns>>

\* the data setStatus holds after its two assignments
StatusDataStatusOnly(parsed, status, date) ==
    [parsed EXCEPT !.frontmatter = AssignKey(parsed.frontmatter, "status", JsStr(status))]
StatusData(parsed, status, date) ==
    [parsed EXCEPT !.frontmatter =
        AssignKey(AssignKey(parsed.frontmatter, "status", JsStr(status)), "status date", JsStr(date))]

\* MyPlugin.setStatus(status): read the active file, parse, set 'status' and
\* 'status date', serialize, write back
SetStatus(status, date, strict) ==
    /\ pc \in {"idle", "written"}
    /\ nruns < MaxRuns
    /\ nruns' = nruns + 1
    /\ handler' = "setStatus"
    /\ nmut' = 0
    /\ IF ~active
       THEN \* new Notice("no file"); return
            /\ pc' = "returned"
            /\ UNCHANGED <<file, input, data, out, err>>
       ELSE LET parsed == ExtractFrontmatter(file)
                edited == StatusData(parsed, status, date)
            IN  /\ input' = file
                /\ IF AssignThrows(parsed.frontmatter, strict)
                   THEN pc' = "threw" /\ err' = TypeError /\ data' = parsed /\ UNCHANGED <<file, out>>
                   ELSE IF ConvertThrows(edited)
                   THEN pc' = "threw" /\ err' = StringifyError /\ data' = edited /\ UNCHANGED <<file, out>>
                   ELSE /\ pc' = "written"
                        /\ UNCHANGED err
                        /\ data' = AfterConvert(edited)
                        /\ out' = ConvertToMarkdown(edited)
                        /\ file' = ConvertToMarkdown(edited)
    /\ UNCHANGED active

Next ==
    \/ Parse /\ UNCHANGED <<clientVars, credVars, pluginVars, clock>>
    \/ \E k \in CallerKeys, v \in CallerValues, strict \in StrictModes(data.frontmatter) :
            Assign(k, v, strict) /\ UNCHANGED <<clientVars, credVars, pluginVars, clock>>
    \/ \E k \in RemovableKeys : Remove(k) /\ UNCHANGED <<clientVars, credVars, pluginVars, clock>>
    \/ Serialize /\ UNCHANGED <<clientVars, credVars, pluginVars, clock>>
    \/ \E s \in StatusNames, d \in FormattedDates,
          strict \in StrictModes(ExtractFrontmatter(file).frontmatter) :
            SetStatus(s, d, strict) /\ UNCHANGED <<clientVars, credVars, pluginVars, clock>>

Spec == Init /\ [][Next]_vars

(* ------------------------------ properties ---------------------------- *)

\* the fallback result of extractFrontmatter for the text d
IsFallback(r, d) == r = DocumentData(EmptyObject, d, Absent)

\* d has, after its first line, a line that consists of three hyphens
HasClosingLine(d) ==
    LET lines == SplitLines(d)
    IN  \E i \in 2 .. Len(lines) : lines[i] = <<HY, HY, HY>>

\* d has no metadata block: no opening delimiter at offset 0, or no closing line
NoBlock(d) == ~StartsWith(d, OpenDelimiter) \/ ~HasClosingLine(d)

\* the text of d up to and including its closing delimiter, and the body after it
BlockText(d) == Slice(d, 0, IndexOf(d, CloseDelimiter, 4) + 5)
BodyText(d) == SliceFrom(d, IndexOf(d, CloseDelimiter, 4) + 5)

\* the lines of the metadata block of d
BlockLines(d) == SplitLines(Slice(d, 4, IndexOf(d, CloseDelimiter, 4)))

\* extractFrontmatter found a block in d that parsed, without errors, to a mapping
ValidMappingBlock(d) ==
    /\ ExtractFrontmatter(d).originalYaml # Absent
    /\ ~ExtractFrontmatter(d).originalYaml.errors
    /\ ExtractFrontmatter(d).frontmatter.t = "map"
    /\ ExtractFrontmatter(d).frontmatter.pairs # <<>>

\* every line of the block of d sets a key: the block has no empty line
OnlyKeyLines(d) == \A i \in 1 .. Len(BlockLines(d)) : IsPairLine(BlockLines(d)[i])

\* d has a delimited block that the YAML parser rejects
MalformedBlock(d) ==
    /\ StartsWith(d, OpenDelimiter)
    /\ IndexOf(d, CloseDelimiter, 4) # -1
    /\ LET doc == ParseDocument(Slice(d, 4, IndexOf(d, CloseDelimiter, 4)))
       IN  doc.errors \/ ToJSONThrows(doc)

\* a line that sets one of the keys setStatus assigns
IsStatusLine(l) == IsPairLine(l) /\ l[1] \in {"status", "status date"}
NotStatusLine(l) == ~IsStatusLine(l)

\* the engine has parsed and serialized the input with no mutation in between
RoundTripped == pc = "converted" /\ handler = "engine" /\ nmut = 0

\* C1: a document with a valid mapping block comes back from
\* convertToMarkdown(extractFrontmatter(d)) byte for byte, up to the
\* whitespace trimmed around the body.  Stated for blocks in which every
\* line sets a key, so that only the rendering of the keys can differ.
C1_RoundTrip ==
    (RoundTripped /\ ValidMappingBlock(input) /\ OnlyKeyLines(input)) =>
        /\ StartsWith(out, OpenDelimiter)
        /\ IndexOf(out, CloseDelimiter, 4) # -1
        /\ BlockText(out) = BlockText(input)
        /\ Trim(BodyText(out)) = Trim(BodyText(input))

\* C2: after setStatus on a document that carries its original YAML handle,
\* the lines of the written block other than the status lines are the lines
\* of the original block other than the status lines, in order and verbatim
\* (comments and quoting), and keys that are new come last.  Stated for
\* blocks in which every line sets a key.
C2_FormattingPreserved ==
    (pc = "written" /\ handler = "setStatus" /\ ValidMappingBlock(input) /\ OnlyKeyLines(input)) =>
        /\ SelectSeq(BlockLines(out), NotStatusLine) = SelectSeq(BlockLines(input), NotStatusLine)
        /\ \A i, j \in 1 .. Len(BlockLines(out)) :
              ( /\ IsStatusLine(BlockLines(out)[i])
                /\ \A l \in 1 .. Len(BlockLines(input)) :
                      ~IsPairLine(BlockLines(input)[l]) \/ BlockLines(input)[l][1] # BlockLines(out)[i][1]
                /\ IsPairLine(BlockLines(out)[j])
                /\ \E l \in 1 .. Len(BlockLines(input)) :
                      IsPairLine(BlockLines(input)[l]) /\ BlockLines(input)[l][1] = BlockLines(out)[j][1] )
              => j < i

\* C3: for a parsed document with a handle whose metadata is non-empty after
\* the caller's mutations, convertToMarkdown returns, and the block it renders
\* parses back to exactly the current metadata.
C3_MutationsReflected ==
    /\ (pc = "threw" /\ handler = "engine" /\ data.originalYaml # Absent) => err # StringifyError
    /\ (pc = "converted" /\ handler = "engine" /\ data.originalYaml # Absent
            /\ KeyCount(data.frontmatter) > 0) =>
          ExtractFrontmatter(out).frontmatter = data.frontmatter

\* C4: extractFrontmatter returns the fallback exactly when the document does
\* not begin with "---\n" or has no later line of three hyphens (a closing
\* "---" that ends the file counts as such a line).
C4_FallbackExactly ==
    (pc = "parsed" /\ nmut = 0) => (IsFallback(data, input) <=> NoBlock(input))

\* C5: a document that begins "---\n---\n" is parsed with metadata {}, a
\* handle, and the trimmed rest of the text as body.
C5_EmptyBlock ==
    (pc = "parsed" /\ nmut = 0 /\ StartsWith(input, OpenDelimiter \o OpenDelimiter)) =>
        /\ data.frontmatter = EmptyObject
        /\ data.originalYaml # Absent
        /\ data.content = Trim(SliceFrom(input, 8))

\* C6: the metadata extractFrontmatter returns is always a mapping.
C6_MetadataIsMapping ==
    (pc = "parsed" /\ nmut = 0) => data.frontmatter.t = "map"

\* C7: when the text between the delimiters is not valid YAML,
\* extractFrontmatter returns the fallback: empty metadata, the whole input
\* as body, no handle.
C7_MalformedFallsBack ==
    (pc = "parsed" /\ nmut = 0 /\ MalformedBlock(input)) => IsFallback(data, input)

\* C8: extractFrontmatter, the two assignments of setStatus and
\* convertToMarkdown complete for every document: setStatus never ends in an
\* exception.
C8_NoException ==
    handler = "setStatus" => pc # "threw"

\* C9: for a document without a metadata block, extractFrontmatter followed
\* by convertToMarkdown returns the input unchanged.
C9_Passthrough ==
    (RoundTripped /\ NoBlock(input)) => out = input

\* C9 witness: a block-less document with whitespace at both ends went through
\* the engine and came back as it was.
C9_Witness ==
    /\ RoundTripped
    /\ NoBlock(input)
    /\ input # <<>>
    /\ Trim(input) # input
    /\ out = input

\* C10: when no key is left in the metadata, convertToMarkdown returns
\* exactly the body, with or without a handle.
C10_BlockRemoval ==
    (pc = "converted" /\ handler = "engine" /\ KeyCount(data.frontmatter) = 0) =>
        out = data.content

\* C10 witness: a document parsed with a handle and with keys had every key
\* removed and was serialized to its body alone.
C10_Witness ==
    /\ pc = "converted"
    /\ handler = "engine"
    /\ nmut > 0
    /\ data.originalYaml # Absent
    /\ ExtractFrontmatter(input).frontmatter.t = "map"
    /\ KeyCount(ExtractFrontmatter(input).frontmatter) > 0
    /\ data.frontmatter = EmptyObject
    /\ data.content # <<>>
    /\ out = data.content

(* ------------------------------- igdb.ts ------------------------------ *)

\* upper bound of the attempt loop of fetchGameMetadata
IGDB_MAX_RETRIES == 3
\* the first delay of the backoff, in milliseconds
IGDB_BASE_BACKOFF_MS == 1000

\* candidates in a generated candidate list
MaxGames == 2

JsUndefined == [t |-> "undefined"]
\* the numbers Number.isFinite rejects
JsNaN == [t |-> "nan"]
JsInfinity == [t |-> "inf"]

\* Math.max of two finite numbers
MathMax(a, b) == IF a >= b THEN a ELSE b

\* an IgdbGame as the search endpoint returns it
IgdbGame(name, total, rating, cover) ==
    [name |-> name, total_rating_count |-> total, rating_count |-> rating, cover |-> cover]

\* normalizeCountValue(value): a finite number is kept, anything else is 0
NormalizeCountValue(value) == IF value.t = "num" THEN value.v ELSE 0

\* the playedCount rankGamesByPlayedCount gives a candidate
PlayedCountTotalOnly(game) == MathMax(NormalizeCountValue(game.total_rating_count), 0)
PlayedCount(game) ==
    LET total == NormalizeCountValue(game.total_rating_count)
        rating == NormalizeCountValue(game.rating_count)
    IN  MathMax(MathMax(total, rating), 0)

\* games.map((game, index) => ({ game, playedCount, index }))
WithCount(games) ==
    [i \in 1 .. Len(games) |->
        [game |-> games[i], playedCount |-> PlayedCount(games[i]), index |-> i - 1]]

\* the comparator handed to sort: negative when a goes before b
CompareCounts(a, b) ==
    IF b.playedCount - a.playedCount # 0
    THEN b.playedCount - a.playedCount
    ELSE a.index - b.index

\* x put into the sorted sequence s, after every element that does not go
\* after it (Array.prototype.sort is stable)
InsertByCount(x, s) ==
    LET before == { i \in 1 .. Len(s) : CompareCounts(s[i], x) <= 0 }
        n == IF before = {} THEN 0 ELSE SetMax(before)
    IN  SubSeq(s, 1, n) \o <<x>> \o SubSeq(s, n + 1, Len(s))

RECURSIVE SortByCount(_)
\* withCount.sort(comparator)
SortByCount(s) ==
    IF s = <<>> THEN <<>>
    ELSE InsertByCount(s[Len(s)], SortByCount(SubSeq(s, 1, Len(s) - 1)))

\* rankGamesByPlayedCount(games)
RankGamesByPlayedCount(games) ==
    IF Len(games) = 0 THEN JsNull
    ELSE SortByCount(WithCount(games))[1].game

\* the values a counter of a candidate is drawn from
CounterValues == {JsUndefined, JsNull, JsNaN, JsInfinity, JsNum(0 - 3), JsNum(5), JsNum(20)}

\* the names the candidates of a generated list carry, by position
PositionNames == <<"first", "second", "third">>

\* the candidate list whose counters are c, a pair per position
GameList(c) ==
    [i \in 1 .. Len(c) |-> IgdbGame(JsStr(<<PositionNames[i]>>), c[i][1], c[i][2], JsUndefined)]

Pending == [t |-> "pending"]

\* a caller is about to rank a candidate list
InitRank ==
    /\ \E len \in 0 .. MaxGames :
          \E c \in [1 .. len -> CounterValues \X CounterValues] :
             call = [op |-> "rankGamesByPlayedCount", games |-> GameList(c)]
    /\ cpc = "called"
    /\ attempt = 0
    /\ sent = <<>>
    /\ seen = <<>>
    /\ waits = <<>>
    /\ wakeAt = 0
    /\ result = Pending
    /\ clock = 0
    /\ DocIdle
    /\ CredIdle
    /\ PluginIdle

\* rankGamesByPlayedCount runs and returns
Rank ==
    /\ call.op = "rankGamesByPlayedCount"
    /\ cpc = "called"
    /\ result' = RankGamesByPlayedCount(call.games)
    /\ cpc' = "returned"
    /\ UNCHANGED <<call, attempt, sent, seen, waits, wakeAt, clock, docVars, credVars, pluginVars>>

NextRank == Rank

SpecRank == InitRank /\ [][NextRank]_vars

\* what the ranking rule says a counter counts for
CounterScore(value) == IF value.t = "num" /\ value.v > 0 THEN value.v ELSE 0

\* what the ranking rule says a candidate scores
RuleScore(game) ==
    IF CounterScore(game.total_rating_count) >= CounterScore(game.rating_count)
    THEN CounterScore(game.total_rating_count)
    ELSE CounterScore(game.rating_count)

\* the positions of the candidates with the greatest score
TopPositions(games) ==
    { i \in 1 .. Len(games) : \A j \in 1 .. Len(games) : RuleScore(games[j]) <= RuleScore(games[i]) }

\* C11: for a non-empty candidate list rankGamesByPlayedCount returns the
\* candidate with the greatest score, the maximum of its two counters and 0
\* with a missing, null or non-finite counter counting as 0, and among
\* candidates with equal scores the one that comes first in the list; for an
\* empty list it returns null
C11_Ranking ==
    (call.op = "rankGamesByPlayedCount" /\ cpc = "returned") =>
        IF call.games = <<>>
        THEN result = JsNull
        ELSE result = call.games[SetMin(TopPositions(call.games))]

\* a list whose two top candidates tie through different counters, one of
\* them holding a negative or non-finite counter, has been ranked
C11_Witness ==
    /\ call.op = "rankGamesByPlayedCount"
    /\ cpc = "returned"
    /\ Len(call.games) = 2
    /\ TopPositions(call.games) = {1, 2}
    /\ RuleScore(call.games[1]) = 20
    /\ call.games[1].total_rating_count.t \in {"nan", "inf", "null", "undefined"}
    /\ call.games[2].rating_count = JsNum(0 - 3)
    /\ result = call.games[1]

(* ------------------------- igdb.ts: the requests ---------------------- *)

\* milliseconds the clock advances in one step
TickMs == 1000
\* the clock stops advancing on its own at this time
MaxClock == 4000

IGDB_IMAGE_BASE_URL == "https://images.igdb.com/igdb/image/upload/"
IGDB_COVER_SIZE == "t_cover_big"

\* String.prototype.includes
Includes(s, p) == IndexOf(s, p, 0) # -1

\* String.prototype.toLowerCase, a token at a time
LowerToken(w) ==
    CASE w \in {"Too", "TOO"} -> "too"
      [] w \in {"Many", "MANY"} -> "many"
      [] w \in {"Requests", "REQUESTS"} -> "requests"
      [] OTHER -> w
ToLowerCase(s) == [i \in 1 .. Len(s) |-> LowerToken(s[i])]

\* a string of the response: its characters, and what JSON.parse makes of it
Invalid == [t |-> "invalid"]
Text(chars, parsed) == [chars |-> chars, parsed |-> parsed]
NoText == Text(<<>>, Invalid)

\* what requestUrl comes back with: a response, or a thrown error
Response(status, json, text) == [kind |-> "response", status |-> status, json |-> json, text |-> text]
Thrown(message) == [kind |-> "thrown", message |-> message]

\* isTooManyRequests(status, text, error), as the two call sites use it
IsTooManyRequestsStatusOnly(o) == o.kind = "response" /\ o.status = 429
IsTooManyRequests(o) ==
    IF o.kind = "response" /\ o.status = 429 THEN TRUE
    ELSE LET messageSources ==
                 IF o.kind = "response"
                 THEN IF Len(o.text.chars) > 0 THEN {o.text.chars} ELSE {}
                 ELSE IF Len(o.message) > 0 THEN {o.message} ELSE {}
         IN  \E value \in messageSources :
                Includes(ToLowerCase(value), <<"too", SP, "many", SP, "requests">>)

\* sanitizeQuery(value): quotes escaped, runs of white space made one space,
\* the ends trimmed
EscapeQuotes(s) == Concat([i \in 1 .. Len(s) |-> IF s[i] = "\"" THEN <<"\\", "\"">> ELSE <<s[i]>>])
CollapseSpaces(s) ==
    LET kept == { i \in 1 .. Len(s) : ~IsSpace(s[i]) \/ i = 1 \/ ~IsSpace(s[i - 1]) }
        pick(n) == CHOOSE i \in kept : Cardinality({ j \in kept : j <= i }) = n
    IN  [n \in 1 .. Cardinality(kept) |-> IF IsSpace(s[pick(n)]) THEN SP ELSE s[pick(n)]]
SanitizeQuery(value) == Trim(CollapseSpaces(EscapeQuotes(value)))

\* Array.isArray
IsArray(x) == x.t = "seq"

\* normalizeResponse(jsonValue, textValue)
NormalizeResponse(jsonValue, textValue) ==
    IF IsArray(jsonValue) THEN jsonValue.items
    ELSE IF Len(textValue.chars) > 0 /\ IsArray(textValue.parsed) THEN textValue.parsed.items
    ELSE <<>>

\* reading a property of a candidate that is null throws a TypeError
RankThrows(games) == \E i \in 1 .. Len(games) : games[i] \in {JsNull, JsUndefined}

\* ranked.cover?.image_id
ImageId(game) ==
    IF game \in {JsNull, JsUndefined} \/ game.cover \in {JsNull, JsUndefined}
    THEN JsUndefined
    ELSE game.cover.image_id

\* imageId && typeof imageId === "string"
IsImageId(imageId) == imageId.t = "str" /\ Len(imageId.v) > 0

ThumbnailUrl(imageId) ==
    JsStr(<<IGDB_IMAGE_BASE_URL, IGDB_COVER_SIZE, "/">> \o imageId.v \o <<".jpg">>)

GameMetadata(thumbnail, canonicalName) ==
    [t |-> "metadata", thumbnail |-> thumbnail, canonicalName |-> canonicalName]

\* what fetchGameMetadata makes of a response whose status is below 400
MetadataOf(o) ==
    LET games == NormalizeResponse(o.json, o.text)
    IN  IF RankThrows(games) THEN JsNull
        ELSE LET ranked == RankGamesByPlayedCount(games)
             IN  IF ranked = JsNull THEN JsNull
                 ELSE GameMetadata(
                        IF IsImageId(ImageId(ranked)) THEN ThumbnailUrl(ImageId(ranked)) ELSE JsNull,
                        IF ranked.name.t = "str" THEN ranked.name ELSE JsNull)

\* the delay before the attempt after attempt n
BackoffDelayFlat(n) == IGDB_BASE_BACKOFF_MS
BackoffDelay(n) == IGDB_BASE_BACKOFF_MS * 2 ^ (n - 1)

\* the guards at the head of fetchGameMetadata and fetchGameThumbnail
LookupRefusedNameOnly(gameName, config) == Len(Trim(gameName)) = 0
LookupRefused(gameName, config) ==
    \/ Len(Trim(gameName)) = 0
    \/ Len(config.clientId) = 0
    \/ Len(config.accessToken) = 0
    \/ Len(SanitizeQuery(Trim(gameName))) = 0

\* a JSON object of a response, by the two properties the client reads
JsonObject(access, expires) ==
    [t |-> "object", access_token |-> access, expires_in |-> expires]

\* data[key]
GetProp(x, key) == IF x.t = "object" THEN x[key] ELSE JsUndefined

\* typeof x === "object" && x !== null
IsObjectValue(x) == x.t \in {"object", "seq"}

DecimalDigits == <<"0", "1", "2", "3", "4", "5", "6", "7", "8", "9">>
IsDigit(c) == \E i \in 1 .. 10 : DecimalDigits[i] = c
DigitValue(c) == (CHOOSE i \in 1 .. 10 : DecimalDigits[i] = c) - 1

RECURSIVE DigitsValue(_)
DigitsValue(s) ==
    IF s = <<>> THEN 0
    ELSE 10 * DigitsValue(SubSeq(s, 1, Len(s) - 1)) + DigitValue(s[Len(s)])

\* Number(value) of a string: white space at the ends is dropped, the empty
\* string is 0, decimal digits are their value, "Infinity" is Infinity and
\* any other text is NaN
NumberOfString(s) ==
    LET trimmed == Trim(s)
    IN  IF trimmed = <<>> THEN JsNum(0)
        ELSE IF \A i \in 1 .. Len(trimmed) : IsDigit(trimmed[i]) THEN JsNum(DigitsValue(trimmed))
        ELSE IF trimmed = <<"Infinity">> THEN JsInfinity
        ELSE JsNaN

\* normalizeExpiresIn(value)
NormalizeExpiresIn(value) ==
    IF value.t = "num" THEN value
    ELSE IF value.t = "str" /\ NumberOfString(value.v).t = "num" THEN NumberOfString(value.v)
    ELSE JsNull

\* parseJsonObject(value)
ParseJsonObject(value) ==
    IF Len(value.chars) = 0 THEN JsNull
    ELSE IF value.parsed # Invalid /\ IsObjectValue(value.parsed) THEN value.parsed
    ELSE JsNull

IgdbAccessToken(accessToken, expiresIn) ==
    [t |-> "token", accessToken |-> accessToken, expiresIn |-> expiresIn]

\* normalizeTokenResponse(jsonValue, textValue)
NormalizeTokenResponseAnyToken(jsonValue, textValue) ==
    LET tokenData == IF IsObjectValue(jsonValue) THEN jsonValue ELSE ParseJsonObject(textValue)
    IN  IF tokenData = JsNull THEN JsNull
        ELSE IF NormalizeExpiresIn(GetProp(tokenData, "expires_in")) = JsNull THEN JsNull
        ELSE IgdbAccessToken(GetProp(tokenData, "access_token"),
                             NormalizeExpiresIn(GetProp(tokenData, "expires_in")).v)
NormalizeTokenResponse(jsonValue, textValue) ==
    LET tokenData == IF IsObjectValue(jsonValue) THEN jsonValue ELSE ParseJsonObject(textValue)
    IN  IF tokenData = JsNull THEN JsNull
        ELSE IF GetProp(tokenData, "access_token").t # "str" THEN JsNull
        ELSE IF NormalizeExpiresIn(GetProp(tokenData, "expires_in")) = JsNull THEN JsNull
        ELSE IgdbAccessToken(GetProp(tokenData, "access_token"),
                             NormalizeExpiresIn(GetProp(tokenData, "expires_in")).v)

\* what requestIgdbAccessToken returns for what its request came back with
TokenOf(o) ==
    IF o.kind = "thrown" THEN JsNull
    ELSE IF o.status >= 400 THEN JsNull
    ELSE NormalizeTokenResponse(o.json, o.text)

\* what fetchGameThumbnail returns for what its request came back with
ThumbnailOf(o) ==
    IF o.kind = "thrown" THEN JsNull
    ELSE IF o.status >= 400 THEN JsNull
    ELSE LET games == NormalizeResponse(o.json, o.text)
         IN  IF Len(games) = 0 THEN JsNull
             ELSE IF ~IsImageId(ImageId(games[1])) THEN JsNull
             ELSE ThumbnailUrl(ImageId(games[1]))

(* ---------------------- what the endpoints answer --------------------- *)

Cover(id) == [image_id |-> JsStr(<<id>>)]
ThrottleText == <<"Too", SP, "Many", SP, "Requests">>

Halo == IgdbGame(JsStr(<<"Halo">>), JsNum(5), JsUndefined, Cover("co1"))
HaloTwo == IgdbGame(JsStr(<<"Halo", SP, "2">>), JsNull, JsNum(20), Cover("co2"))
Unnamed == IgdbGame(JsUndefined, JsNum(5), JsNum(5), Cover("co3"))
Coverless == IgdbGame(JsStr(<<"Halo">>), JsNum(5), JsNum(5), JsUndefined)
NamedLikeThrottle == IgdbGame(JsStr(ThrottleText), JsNum(5), JsNum(5), Cover("co4"))

\* the candidate lists the search endpoint answers with
ResponseLists ==
    { <<>>, <<Halo, HaloTwo>>, <<HaloTwo, Halo>>, <<Unnamed>>, <<Coverless>>,
      <<NamedLikeThrottle>>, <<JsNull>> }

\* the body of a response that carries the candidate list games
GamesText(games) ==
    Text(<<"[">> \o Concat([i \in 1 .. Len(games) |->
                    IF games[i] # JsNull /\ games[i].name.t = "str" THEN games[i].name.v ELSE <<>>])
               \o <<"]">>,
         JsArr(games, <<>>))

ErrorObject == JsonObject(JsUndefined, JsUndefined)
ErrorText == Text(<<"{", "message", "}">>, ErrorObject)

\* what the search request of a lookup can come back with
SearchOutcomes ==
    { Response(200, JsArr(g, <<>>), GamesText(g)) : g \in ResponseLists }
    \cup
    { Response(200, JsUndefined, GamesText(<<Halo, HaloTwo>>)),
      Response(200, ErrorObject, ErrorText),
      Response(200, JsUndefined, Text(ThrottleText, Invalid)),
      Response(304, JsUndefined, NoText),
      Response(429, JsUndefined, NoText),
      Response(503, JsUndefined, Text(ThrottleText, Invalid)),
      Response(500, JsUndefined, Text(<<"server", SP, "error">>, Invalid)),
      Response(401, ErrorObject, ErrorText),
      Thrown(<<"TOO", SP, "MANY", SP, "REQUESTS">>),
      Thrown(<<"net::ERR_FAILED">>) }

AccessValues == {JsUndefined, JsNull, JsNum(7), JsStr(<<"tok">>)}
ExpiresValues ==
    { JsUndefined, JsNull, JsNum(3600), JsInfinity, [t |-> "bool"],
      JsStr(<<"9", "0">>), JsStr(<<SP, "9", "0", NL>>), JsStr(<<>>), JsStr(<<SP>>),
      JsStr(<<"soon">>), JsStr(<<"Infinity">>) }
TokenStatuses == {200, 302, 400, 401, 503}

TokenText(access, expires) == Text(<<"{", "token", "}">>, JsonObject(access, expires))

\* what the token request can come back with
TokenOutcomes ==
    { Response(st, JsonObject(a, e), TokenText(a, e)) :
        st \in TokenStatuses, a \in AccessValues, e \in ExpiresValues }
    \cup
    { Response(200, JsUndefined, TokenText(JsStr(<<"tok">>), JsNum(3600))),
      Response(200, JsUndefined, TokenText(JsStr(<<"tok">>), JsStr(<<>>))),
      Response(200, JsArr(<<>>, <<>>), Text(<<"[", "]">>, JsArr(<<>>, <<>>))),
      Response(200, JsNull, Text(<<"null">>, JsNull)),
      Response(200, JsUndefined, Text(<<"<html>">>, Invalid)),
      Response(200, JsUndefined, NoText),
      Thrown(<<"net::ERR_FAILED">>) }

GameNames == { <<>>, <<SP, NL>>, <<"Halo">>, <<SP, "Halo", SP, SP, "2", NL>>, <<"\"">> }
IgdbConfigs == [clientId : {<<>>, <<"id">>}, accessToken : {<<>>, <<"token">>}]

(* ------------------------ igdb.ts: the calls -------------------------- *)

\* a caller is about to call one of the three exported functions
InitClient ==
    /\ \/ \E n \in GameNames, c \in IgdbConfigs :
             call = [op |-> "fetchGameMetadata", gameName |-> n, config |-> c]
       \/ \E n \in GameNames, c \in IgdbConfigs :
             call = [op |-> "fetchGameThumbnail", gameName |-> n, config |-> c]
       \/ call = [op |-> "requestIgdbAccessToken",
                  clientId |-> <<"id">>, clientSecret |-> <<"secret">>]
    /\ cpc = "called"
    /\ attempt = 0
    /\ sent = <<>>
    /\ seen = <<>>
    /\ waits = <<>>
    /\ wakeAt = 0
    /\ result = Pending
    /\ clock = 0
    /\ DocIdle
    /\ CredIdle
    /\ PluginIdle

\* fetchGameMetadata up to its first await: the guards, then attempt 1
FetchGameMetadata ==
    /\ call.op = "fetchGameMetadata"
    /\ cpc = "called"
    /\ IF LookupRefused(call.gameName, call.config)
       THEN /\ result' = JsNull
            /\ cpc' = "returned"
            /\ UNCHANGED <<attempt, sent>>
       ELSE /\ attempt' = 1
            /\ sent' = Append(sent, clock)
            /\ cpc' = "awaiting"
            /\ UNCHANGED result
    /\ UNCHANGED <<call, seen, waits, wakeAt, clock, docVars, credVars, pluginVars>>

\* the request of the current attempt comes back with o: the lookup starts
\* a delay when o is a failure that says too many requests and attempts are
\* left, and returns otherwise
MetadataResponse(o) ==
    /\ call.op = "fetchGameMetadata"
    /\ cpc = "awaiting"
    /\ seen' = Append(seen, o)
    /\ LET failed == o.kind = "thrown" \/ o.status >= 400
       IN  IF failed /\ IsTooManyRequests(o) /\ attempt < IGDB_MAX_RETRIES
           THEN /\ waits' = Append(waits, [from |-> clock, ms |-> BackoffDelay(attempt)])
                /\ wakeAt' = clock + BackoffDelay(attempt)
                /\ cpc' = "delaying"
                /\ UNCHANGED result
           ELSE /\ result' = IF failed THEN JsNull ELSE MetadataOf(o)
                /\ cpc' = "returned"
                /\ UNCHANGED <<waits, wakeAt>>
    /\ UNCHANGED <<call, attempt, sent, clock, docVars, credVars, pluginVars>>

\* the timer of delay(delayMs) fires: continue, attempt++, the next request
DelayElapsed ==
    /\ call.op = "fetchGameMetadata"
    /\ cpc = "delaying"
    /\ clock >= wakeAt
    /\ attempt' = attempt + 1
    /\ IF attempt + 1 <= IGDB_MAX_RETRIES
       THEN /\ sent' = Append(sent, clock)
            /\ cpc' = "awaiting"
            /\ UNCHANGED result
       ELSE /\ result' = JsNull
            /\ cpc' = "returned"
            /\ UNCHANGED sent
    /\ UNCHANGED <<call, seen, waits, wakeAt, clock, docVars, credVars, pluginVars>>

\* fetchGameThumbnail up to its await: the guards, then the one request
FetchGameThumbnail ==
    /\ call.op = "fetchGameThumbnail"
    /\ cpc = "called"
    /\ IF LookupRefused(call.gameName, call.config)
       THEN /\ result' = JsNull
            /\ cpc' = "returned"
            /\ UNCHANGED sent
       ELSE /\ sent' = Append(sent, clock)
            /\ cpc' = "awaiting"
            /\ UNCHANGED result
    /\ UNCHANGED <<call, attempt, seen, waits, wakeAt, clock, docVars, credVars, pluginVars>>

\* the request of fetchGameThumbnail comes back with o
ThumbnailResponse(o) ==
    /\ call.op = "fetchGameThumbnail"
    /\ cpc = "awaiting"
    /\ seen' = Append(seen, o)
    /\ result' = ThumbnailOf(o)
    /\ cpc' = "returned"
    /\ UNCHANGED <<call, attempt, sent, waits, wakeAt, clock, docVars, credVars, pluginVars>>

\* requestIgdbAccessToken up to its await
RequestIgdbAccessToken ==
    /\ call.op = "requestIgdbAccessToken"
    /\ cpc = "called"
    /\ sent' = Append(sent, clock)
    /\ cpc' = "awaiting"
    /\ UNCHANGED <<call, attempt, seen, waits, wakeAt, result, clock, docVars, credVars, pluginVars>>

\* the token request comes back with o
TokenResponse(o) ==
    /\ call.op = "requestIgdbAccessToken"
    /\ cpc = "awaiting"
    /\ seen' = Append(seen, o)
    /\ result' = TokenOf(o)
    /\ cpc' = "returned"
    /\ UNCHANGED <<call, attempt, sent, waits, wakeAt, clock, docVars, credVars, pluginVars>>

\* time passes while a request or a delay is pending
TickClient ==
    /\ cpc \in {"awaiting", "delaying"}
    /\ clock < MaxClock \/ (cpc = "delaying" /\ clock < wakeAt)
    /\ clock' = clock + TickMs
    /\ UNCHANGED <<clientVars, docVars, credVars, pluginVars>>

NextClient ==
    \/ FetchGameMetadata
    \/ \E o \in SearchOutcomes : MetadataResponse(o)
    \/ DelayElapsed
    \/ FetchGameThumbnail
    \/ \E o \in SearchOutcomes : ThumbnailResponse(o)
    \/ RequestIgdbAccessToken
    \/ \E o \in TokenOutcomes : TokenResponse(o)
    \/ TickClient

SpecClient == InitClient /\ [][NextClient]_vars

(* ----------------------- properties of the lookup --------------------- *)

HasThrottlePhrase(s) == Includes(ToLowerCase(s), <<"too", SP, "many", SP, "requests">>)

\* a throttling response: HTTP 429, or a response body or an error message
\* that contains "too many requests" in any case
ThrottlingResponse(o) ==
    IF o.kind = "response"
    THEN o.status = 429 \/ HasThrottlePhrase(o.text.chars)
    ELSE HasThrottlePhrase(o.message)

\* a throttling failure: HTTP 429, or the body of a response with a status
\* of 400 or more, or the message of a raised error, that contains the phrase
ThrottlingFailure(o) ==
    IF o.kind = "response"
    THEN o.status = 429 \/ (o.status >= 400 /\ HasThrottlePhrase(o.text.chars))
    ELSE HasThrottlePhrase(o.message)

\* the candidate list a response carries, empty when it carries none
CandidatesOf(o) ==
    IF o.json.t = "seq" THEN o.json.items
    ELSE IF o.text.parsed.t = "seq" THEN o.text.parsed.items
    ELSE <<>>

\* the result the ranking rule gives for a response with a success status
RankedResult(o) ==
    LET games == CandidatesOf(o)
    IN  IF games = <<>> \/ \E i \in 1 .. Len(games) : games[i] = JsNull THEN JsNull
        ELSE LET best == games[SetMin(TopPositions(games))]
             IN  GameMetadata(
                    IF best.cover # JsUndefined
                    THEN JsStr(<<IGDB_IMAGE_BASE_URL, IGDB_COVER_SIZE, "/">>
                               \o best.cover.image_id.v \o <<".jpg">>)
                    ELSE JsNull,
                    IF best.name.t = "str" THEN best.name ELSE JsNull)

\* at most three requests; every attempt before the last was throttled; the
\* last attempt decides the result, unless it is the third and throttled
DecidedByFirstUnthrottled(throttled(_)) ==
    call.op = "fetchGameMetadata" =>
        /\ Len(sent) <= IGDB_MAX_RETRIES
        /\ attempt <= IGDB_MAX_RETRIES
        /\ (cpc = "returned" /\ seen # <<>>) =>
              /\ Len(sent) = Len(seen)
              /\ \A i \in 1 .. Len(seen) - 1 : throttled(seen[i])
              /\ LET last == seen[Len(seen)]
                 IN  IF throttled(last)
                     THEN Len(seen) = IGDB_MAX_RETRIES /\ result = JsNull
                     ELSE IF last.kind = "response" /\ last.status < 400
                          THEN result = RankedResult(last)
                          ELSE result = JsNull

\* C12, as stated: the lookup sends at most three requests, and its result is
\* decided by the first attempt that is not a throttling response (HTTP 429,
\* or a response body or error message containing "too many requests"): a
\* success returns the ranked result, any other failure returns null, and
\* three throttled attempts return null
C12_ThrottleRetry == DecidedByFirstUnthrottled(ThrottlingResponse)

\* C12, amended: the same, where a response body counts as throttling only
\* when the response has a status of 400 or more
C12_ThrottleRetryOnFailure == DecidedByFirstUnthrottled(ThrottlingFailure)

\* two throttled attempts, by a failing body and by a raised error, were
\* followed by a third attempt that succeeded and gave the ranked candidate
C12_Witness ==
    /\ call.op = "fetchGameMetadata"
    /\ cpc = "returned"
    /\ Len(seen) = 3
    /\ seen[1] = Response(503, JsUndefined, Text(ThrottleText, Invalid))
    /\ seen[2].kind = "thrown"
    /\ seen[3] = Response(200, JsArr(<<Halo, HaloTwo>>, <<>>), GamesText(<<Halo, HaloTwo>>))
    /\ result = GameMetadata(ThumbnailUrl(JsStr(<<"co2">>)), JsStr(<<"Halo", SP, "2">>))

\* C13: after throttled attempt k, for k = 1 and k = 2, the lookup waits
\* 1000 * 2^(k-1) milliseconds and sends attempt k+1 only when that wait has
\* elapsed; it never waits after the third attempt, so it waits 3000
\* milliseconds at most
C13_Backoff ==
    call.op = "fetchGameMetadata" =>
        /\ Len(waits) <= 2
        /\ Len(waits) <= Len(seen)
        /\ \A k \in 1 .. Len(waits) :
              /\ waits[k].ms = 1000 * 2 ^ (k - 1)
              /\ ThrottlingFailure(seen[k])
              /\ k + 1 <= Len(sent) => sent[k + 1] >= waits[k].from + waits[k].ms
        /\ Len(sent) <= Len(waits) + 1
        /\ (IF Len(waits) = 0 THEN 0
            ELSE IF Len(waits) = 1 THEN waits[1].ms
            ELSE waits[1].ms + waits[2].ms) <= 3000
        /\ cpc = "delaying" => Len(waits) = Len(seen) /\ wakeAt = waits[Len(waits)].from + waits[Len(waits)].ms

\* three attempts were throttled: the third request left 2000 ms or more
\* after the second came back, and the lookup returned without a third wait
C13_Witness ==
    /\ call.op = "fetchGameMetadata"
    /\ cpc = "returned"
    /\ Len(seen) = 3
    /\ ThrottlingFailure(seen[3])
    /\ Len(waits) = 2
    /\ waits[2].from = 1000
    /\ sent[3] = 3000
    /\ result = JsNull

(* -------------------- properties of the token request ----------------- *)

\* the JSON object the body of a response carries, null when it carries none
BodyObject(o) ==
    IF o.json.t \in {"object", "seq"} THEN o.json
    ELSE IF Len(o.text.chars) > 0 /\ o.text.parsed.t \in {"object", "seq"} THEN o.text.parsed
    ELSE JsNull

BodyField(o, key) == IF BodyObject(o).t = "object" THEN BodyObject(o)[key] ELSE JsUndefined

\* C17: requestIgdbAccessToken never raises: it returns a credential or
\* null; it returns null when the request raised an error, when the response
\* status is outside 2xx/3xx, and when access_token is missing or not a string
C17_TokenFailure ==
    (call.op = "requestIgdbAccessToken" /\ cpc = "returned") =>
        /\ result.t \in {"null", "token"}
        /\ LET o == seen[1]
           IN  (\/ o.kind = "thrown"
                \/ o.status \notin 200 .. 399
                \/ BodyField(o, "access_token").t # "str") => result = JsNull

\* a response with a well-formed body and a status of 401 gave null
C17_Witness ==
    /\ call.op = "requestIgdbAccessToken"
    /\ cpc = "returned"
    /\ seen[1].kind = "response"
    /\ seen[1].status = 401
    /\ BodyField(seen[1], "access_token") = JsStr(<<"tok">>)
    /\ BodyField(seen[1], "expires_in") = JsNum(3600)
    /\ result = JsNull

\* a string that denotes a number: decimal digits, white space around them
DenotesNumber(s) ==
    /\ Trim(s) # <<>>
    /\ \A i \in 1 .. Len(Trim(s)) : IsDigit(Trim(s)[i])

\* C18: requestIgdbAccessToken returns a credential only when expires_in is
\* a finite number or a string that denotes a number; a missing, null, empty,
\* blank or non-numeric expires_in gives null
C18_ExpiryRequired ==
    (call.op = "requestIgdbAccessToken" /\ cpc = "returned" /\ seen[1].kind = "response") =>
        LET e == BodyField(seen[1], "expires_in")
        IN  /\ result.t = "token" => (e.t = "num" \/ (e.t = "str" /\ DenotesNumber(e.v)))
            /\ (e.t \in {"undefined", "null"} \/ (e.t = "str" /\ ~DenotesNumber(e.v)))
                  => result = JsNull

(* ---------------------- properties of both requests ------------------- *)

\* C19: a lookup whose trimmed name is empty, whose access token is empty or
\* whose client identifier is empty sends no request and returns null
C19_Preconditions ==
    (/\ call.op \in {"fetchGameMetadata", "fetchGameThumbnail"}
     /\ \/ Trim(call.gameName) = <<>>
        \/ call.config.accessToken = <<>>
        \/ call.config.clientId = <<>>) =>
        /\ sent = <<>>
        /\ cpc \in {"called", "returned"}
        /\ cpc = "returned" => result = JsNull

\* a lookup of a name of white space only, with both credentials present,
\* has returned
C19_Witness ==
    /\ call.op = "fetchGameMetadata"
    /\ call.gameName = <<SP, NL>>
    /\ call.config = [clientId |-> <<"id">>, accessToken |-> <<"token">>]
    /\ cpc = "returned"
    /\ result = JsNull
    /\ sent = <<>>

\* a response with a success status that lacks a required field or has the
\* wrong shape: the token, the expiry, the name of the winning candidate, or
\* a body that is not a candidate list
WrongShape(o) ==
    /\ o.kind = "response"
    /\ o.status \in 200 .. 399
    /\ IF call.op = "requestIgdbAccessToken"
       THEN \/ BodyField(o, "access_token").t # "str"
            \/ LET e == BodyField(o, "expires_in")
               IN  ~(e.t = "num" \/ (e.t = "str" /\ DenotesNumber(e.v)))
       ELSE \/ o.json.t # "seq" /\ o.text.parsed.t # "seq"
            \/ \E i \in 1 .. Len(CandidatesOf(o)) : CandidatesOf(o)[i] = JsNull
            \/ /\ call.op = "fetchGameMetadata"
               /\ CandidatesOf(o) # <<>>
               /\ RankedResult(o).canonicalName = JsNull

\* C20: when a response with a success status lacks a required field or has
\* the wrong shape, the operation returns null and sends no further request
C20_NoRetryOnWrongShape ==
    \A k \in 1 .. Len(seen) :
        WrongShape(seen[k]) =>
            /\ Len(sent) = k
            /\ cpc = "returned"
            /\ result = JsNull

(* ------------------- main.ts: the cached credential ------------------- *)

\* calls of ensureIgdbAccessToken in one run
MaxEnsureCalls == 2
\* edits of a credential in the settings tab in one run
MaxChanges == 1
\* milliseconds the clock advances in one step while the plugin is idle
CredTickMs == 30000
\* the clock stops advancing at this time
MaxCredClock == 90000

\* the expires_in, in seconds, the token endpoint answers with
ExpiresInSeconds == {30, 90, 150}

\* the token strings the endpoint issues, in the order it issues them
TokenNames == <<"tok1", "tok2", "tok3", "tok4">>

\* what the token request of the n-th issued token can come back with
CredentialOutcomes(n) ==
    { Response(200, JsonObject(JsStr(<<TokenNames[n]>>), JsNum(e)),
               TokenText(JsStr(<<TokenNames[n]>>), JsNum(e))) : e \in ExpiresInSeconds }
    \cup { Response(401, ErrorObject, ErrorText) }

\* what the user types into the two credential fields
ClientIdInputs == { <<"id1">>, <<SP>> }
ClientSecretInputs == { <<SP, "s2", SP>> }

\* the plugin has loaded its settings and holds no credential
InitCredential ==
    /\ settings \in [igdbClientId : {<<>>, <<"id1">>}, igdbClientSecret : {<<"s1">>}]
    /\ igdbToken = JsNull
    /\ ensure = <<>>
    /\ setter = [pc |-> "idle", changes |-> 0, failed |-> FALSE]
    /\ issued = <<>>
    /\ cleared = FALSE
    /\ clock = 0
    /\ ClientIdle
    /\ DocIdle
    /\ PluginIdle

\* the cache test of ensureIgdbAccessToken at time now
CacheIsFresh(now) == igdbToken # JsNull /\ igdbToken.expiresAt > now + 60000

\* ensureIgdbAccessToken up to its await: null without both credentials, the
\* cached value while it is fresh, the token request otherwise
EnsureIgdbAccessToken ==
    /\ Len(ensure) < MaxEnsureCalls
    /\ LET igdbClientId == settings.igdbClientId
           igdbClientSecret == settings.igdbClientSecret
           entry == [now |-> clock, clientId |-> igdbClientId, clientSecret |-> igdbClientSecret,
                     cached |-> igdbToken, afterClear |-> cleared]
       IN  IF Len(igdbClientId) = 0 \/ Len(igdbClientSecret) = 0
           THEN ensure' = Append(ensure,
                    entry @@ [pc |-> "returned", requested |-> FALSE, result |-> JsNull])
           ELSE IF CacheIsFresh(clock)
           THEN ensure' = Append(ensure,
                    entry @@ [pc |-> "returned", requested |-> FALSE, result |-> igdbToken.value])
           ELSE ensure' = Append(ensure,
                    entry @@ [pc |-> "awaiting", requested |-> TRUE, result |-> Pending])
    /\ cleared' = FALSE
    /\ UNCHANGED <<settings, igdbToken, setter, issued, clock, clientVars, docVars, pluginVars>>

\* the token request of call i comes back with o: a token is cached with
\* expiresAt = now + max(0, expiresIn - 60) * 1000 and returned; without a
\* token the call returns null and the cache is left alone
EnsureTokenResponse(i, o) ==
    /\ ensure[i].pc = "awaiting"
    /\ LET token == TokenOf(o)
       IN  IF token = JsNull
           THEN /\ ensure' = [ensure EXCEPT ![i].pc = "returned", ![i].result = JsNull]
                /\ UNCHANGED <<igdbToken, issued>>
           ELSE /\ igdbToken' = [value |-> token.accessToken,
                                 expiresAt |-> ensure[i].now + MathMax(0, token.expiresIn - 60) * 1000]
                /\ ensure' = [ensure EXCEPT ![i].pc = "returned", ![i].result = token.accessToken]
                /\ issued' = Append(issued,
                        [value |-> token.accessToken, clientId |-> ensure[i].clientId,
                         clientSecret |-> ensure[i].clientSecret, at |-> clock,
                         expiresIn |-> token.expiresIn])
    /\ UNCHANGED <<settings, setter, cleared, clock, clientVars, docVars, pluginVars>>

\* setIgdbClientId(value) up to its await of saveSettings
SetIgdbClientId(value) ==
    /\ setter.pc = "idle"
    /\ setter.changes < MaxChanges
    /\ settings' = [settings EXCEPT !.igdbClientId = Trim(value)]
    /\ setter' = [pc |-> "saving", changes |-> setter.changes + 1, failed |-> FALSE]
    /\ UNCHANGED <<igdbToken, ensure, issued, cleared, clock, clientVars, docVars, pluginVars>>

\* setIgdbClientSecret(value) up to its await of saveSettings
SetIgdbClientSecret(value) ==
    /\ setter.pc = "idle"
    /\ setter.changes < MaxChanges
    /\ settings' = [settings EXCEPT !.igdbClientSecret = Trim(value)]
    /\ setter' = [pc |-> "saving", changes |-> setter.changes + 1, failed |-> FALSE]
    /\ UNCHANGED <<igdbToken, ensure, issued, cleared, clock, clientVars, docVars, pluginVars>>

\* clearIgdbTokenCache()
ClearIgdbTokenCache == igdbToken' = JsNull /\ cleared' = TRUE

\* saveSettings resolves: the handler clears the cache and returns
SettingsSaved ==
    /\ setter.pc = "saving"
    /\ ClearIgdbTokenCache
    /\ setter' = [setter EXCEPT !.pc = "idle"]
    /\ UNCHANGED <<settings, ensure, issued, clock, clientVars, docVars, pluginVars>>

\* saveSettings rejects: the handler ends at the await, the cache is not
\* cleared
SettingsSaveFailed ==
    /\ setter.pc = "saving"
    /\ setter' = [setter EXCEPT !.pc = "idle", !.failed = TRUE]
    /\ UNCHANGED <<settings, igdbToken, ensure, issued, cleared, clock, clientVars, docVars, pluginVars>>

\* time passes
TickCredential ==
    /\ clock < MaxCredClock
    /\ clock' = clock + CredTickMs
    /\ UNCHANGED <<credVars, clientVars, docVars, pluginVars>>

NextCredential ==
    \/ EnsureIgdbAccessToken
    \/ \E i \in 1 .. Len(ensure), o \in CredentialOutcomes(Len(issued) + 1) : EnsureTokenResponse(i, o)
    \/ \E value \in ClientIdInputs : SetIgdbClientId(value)
    \/ \E value \in ClientSecretInputs : SetIgdbClientSecret(value)
    \/ SettingsSaved
    \/ SettingsSaveFailed
    \/ TickCredential

SpecCredential == InitCredential /\ [][NextCredential]_vars

(* ------------------ properties of the cached credential --------------- *)

\* the record of the issue of the token string value
IssueOf(value) == issued[CHOOSE n \in 1 .. Len(issued) : issued[n].value = value]

\* the declared expiry of a cached token: acquisition time + expires_in
DeclaredExpiry(token) == IssueOf(token.value).at + IssueOf(token.value).expiresIn * 1000

\* the call c was made with both credentials configured
Configured(c) == Len(c.clientId) > 0 /\ Len(c.clientSecret) > 0

\* C14: a call of ensureIgdbAccessToken made while the cache holds a token
\* whose declared expiry (acquisition time + expires_in) is more than 60
\* seconds away returns the cached token and sends no token request, for
\* every expires_in greater than 60 seconds
C14_CredentialReuse ==
    \A i \in 1 .. Len(ensure) :
        LET c == ensure[i]
        IN  (/\ Configured(c)
             /\ c.cached # JsNull
             /\ IssueOf(c.cached.value).expiresIn > 60
             /\ DeclaredExpiry(c.cached) > c.now + 60000) =>
                /\ ~c.requested
                /\ c.result = c.cached.value

\* C15: with both credentials configured, the first call of
\* ensureIgdbAccessToken after clearIgdbTokenCache, and every call made when
\* the declared expiry of the cached token is 60 seconds away or less, sends
\* a token request and does not return the old cached token
C15_Reacquisition ==
    \A i \in 1 .. Len(ensure) :
        LET c == ensure[i]
        IN  (/\ Configured(c)
             /\ \/ c.afterClear
                \/ c.cached # JsNull /\ DeclaredExpiry(c.cached) <= c.now + 60000) =>
                /\ c.requested
                /\ c.cached # JsNull => c.result # c.cached.value

\* the token string value was obtained with the credentials now configured
ObtainedWithCurrent(value) ==
    /\ IssueOf(value).clientId = settings.igdbClientId
    /\ IssueOf(value).clientSecret = settings.igdbClientSecret

\* C16: once setIgdbClientSecret or setIgdbClientId has changed the
\* configured value, saved it and returned, the cache holds no token that
\* was obtained with the previous client id or secret, whatever was in
\* flight during the change
C16_InvalidationOnChange ==
    (setter.pc = "idle" /\ ~setter.failed /\ igdbToken # JsNull) =>
        ObtainedWithCurrent(igdbToken.value)

(* ------------------- more properties of the documents ----------------- *)

\* t has the shape "---\n" + block text ending in a newline + "---\n\n" + body
HasBlockShape(t, body) ==
    \E n \in 5 .. Len(t) :
        /\ StartsWith(t, OpenDelimiter)
        /\ t[n] = NL
        /\ SliceFrom(t, n) = <<HY, HY, HY, NL, NL>> \o body

\* C26: the text t = convertToMarkdown(extractFrontmatter(d)) is a fixpoint
\* of the round trip; when the metadata is non-empty t has the shape
\* "---\n" + block text ending in a newline + "---\n\n" + body, and parsing t
\* returns the same metadata and the same body
C26_NormalForm ==
    RoundTripped =>
        /\ ~ConvertThrows(ExtractFrontmatter(out))
        /\ ConvertToMarkdown(ExtractFrontmatter(out)) = out
        /\ KeyCount(data.frontmatter) > 0 =>
              /\ HasBlockShape(out, data.content)
              /\ ExtractFrontmatter(out).frontmatter = data.frontmatter
              /\ ExtractFrontmatter(out).content = data.content

\* the metadata setStatus(s) is to leave: the original pairs with 'status'
\* and 'status date' set, a key that was there keeping its place
WithStatus(pairs, s, d) == JsObj(PutPair(PutPair(pairs, "status", JsStr(s)), "status date", JsStr(d)))

\* the block setStatus writes into a file that had none
StatusBlock(s, d) ==
    OpenDelimiter \o <<"status", ":", SP, s, NL>> \o <<"status date", ":", SP, d, NL>>
        \o <<HY, HY, HY, NL, NL>>

MaxNameLen == 3

\* the characters a typed name is drawn from: a word, white space, the double
\* quote and the backslash
QueryChars == {"Halo", SP, NL, "\"", "\\"}

\* the body of the request of fetchGameMetadata
SearchFields == "name,cover.image_id,total_rating_count,rating_count"
SearchLimit == "5"
SearchBody(searchTerm) ==
    <<"search", SP, "\"">> \o searchTerm
        \o <<"\"", ";", SP, "fields", SP, SearchFields, ";", SP, "limit", SP, SearchLimit, ";">>

\* a caller is about to look a name up with both credentials present
QueryConfig == [clientId |-> <<"id">>, accessToken |-> <<"token">>]
InitQuery ==
    /\ \E len \in 0 .. MaxNameLen :
          \E n \in [1 .. len -> QueryChars] :
             query = [pc |-> "called", gameName |-> n]
    /\ CoverIdle
    /\ BatchIdle
    /\ CreateIdle
    /\ clock = 0
    /\ DocIdle
    /\ ClientIdle
    /\ CredIdle

\* fetchGameMetadata from its guards to the body of its request
BuildSearch ==
    /\ query.pc = "called"
    /\ IF LookupRefused(query.gameName, QueryConfig)
       THEN query' = [pc |-> "refused", gameName |-> query.gameName]
       ELSE LET searchTerm == SanitizeQuery(Trim(query.gameName))
            IN  query' = [pc |-> "sent", gameName |-> query.gameName,
                          searchTerm |-> searchTerm, body |-> SearchBody(searchTerm)]
    /\ UNCHANGED <<docVars, clientVars, credVars, coverCall, batchVars, createVars, clock>>

NextQuery == BuildSearch

SpecQuery == InitQuery /\ [][NextQuery]_vars

(* ------------------- properties of the search request ----------------- *)

\* the number of backslashes that stand directly before position i of s
RECURSIVE BackslashesBefore(_, _)
BackslashesBefore(s, i) ==
    IF i > 1 /\ s[i - 1] = "\\" THEN 1 + BackslashesBefore(s, i - 1) ELSE 0

\* a quote is escaped when an odd number of backslashes stands before it
EscapedAt(s, i) == BackslashesBefore(s, i) % 2 = 1

\* the position of the quote that ends the string literal opened by the
\* third token of a request body, 0 when nothing ends it
ClosingQuote(body) ==
    LET ends == { i \in 4 .. Len(body) : body[i] = "\"" /\ ~EscapedAt(SliceFrom(body, 3), i - 3) }
    IN  IF ends = {} THEN 0 ELSE CHOOSE i \in ends : \A j \in ends : i <= j

\* C21: the search term has every double quote escaped, every run of white
\* space collapsed to one space and no white space at its ends; the body is
\* search "<term>"; fields <field list>; limit <n>; and the string literal
\* opened before the term ends at the quote written after it, so the term
\* stays inside the quoted string; an empty term sends no request.
C21_QuerySanitised ==
    /\ query.pc = "sent" =>
          LET t == query.searchTerm
          IN  /\ \A i \in 1 .. Len(t) : t[i] = "\"" => EscapedAt(t, i)
              /\ \A i \in 1 .. Len(t) : t[i] # NL
              /\ \A i \in 1 .. Len(t) - 1 : ~(t[i] = SP /\ t[i + 1] = SP)
              /\ Len(t) > 0 /\ t[1] # SP /\ t[Len(t)] # SP
              /\ query.body = SearchBody(t)
              /\ ClosingQuote(query.body) = Len(t) + 4
    /\ query.pc = "refused" => Len(SanitizeQuery(Trim(query.gameName))) = 0
    /\ (query.pc # "called" /\ Len(SanitizeQuery(Trim(query.gameName))) = 0) => query.pc = "refused"

(* ----------------------- main.ts: upsertCoverImage -------------------- *)

MaxPieces == 3

CR == "\r"

\* \s of a regular expression
IsWhite(c) == c \in {SP, NL, CR}

\* the tokens of s at the positions of kept, in order
AtPositions(s, kept) ==
    LET pick(n) == CHOOSE i \in kept : Cardinality({ j \in kept : j <= i }) = n
    IN  [n \in 1 .. Cardinality(kept) |-> s[pick(n)]]

\* content.replace(/\r\n/g, "\n")
NormalizeNewlines(s) ==
    AtPositions(s, { i \in 1 .. Len(s) : ~(s[i] = CR /\ i < Len(s) /\ s[i + 1] = NL) })

\* the position of the first c of s at or after position from, 0 when none
FirstAt(s, c, from) ==
    LET hits == { j \in from .. Len(s) : s[j] = c }
    IN  IF hits = {} THEN 0 ELSE SetMin(hits)

\* the position where a match of /!\[[^\]]*]\([^\)]+\)/ that starts at
\* position i of s ends, 0 when none starts there
ImageEnd(s, i) ==
    IF i + 1 <= Len(s) /\ s[i] = "!" /\ s[i + 1] = "["
    THEN LET j == FirstAt(s, "]", i + 2)
         IN  IF j = 0 \/ j + 1 > Len(s) \/ s[j + 1] # "(" THEN 0
             ELSE LET k == FirstAt(s, ")", j + 2)
                  IN  IF k = 0 \/ k = j + 2 THEN 0 ELSE k
    ELSE 0

RECURSIVE RemoveImagesFrom(_, _)
\* replace(imageRegex, "") from position i on: matches are taken from left
\* to right and the search goes on after the end of a match
RemoveImagesFrom(s, i) ==
    IF i > Len(s) THEN <<>>
    ELSE IF ImageEnd(s, i) # 0 THEN RemoveImagesFrom(s, ImageEnd(s, i) + 1)
    ELSE <<s[i]>> \o RemoveImagesFrom(s, i + 1)

RemoveImages(s) == RemoveImagesFrom(s, 1)

\* replace(/^\n+/, "")
TrimLeadingNewlines(s) ==
    LET other == { i \in 1 .. Len(s) : s[i] # NL }
    IN  IF other = {} THEN <<>> ELSE SubSeq(s, SetMin(other), Len(s))

\* replace(/\s+$/, "")
TrimTrailingWhite(s) ==
    LET other == { i \in 1 .. Len(s) : ~IsWhite(s[i]) }
    IN  IF other = {} THEN <<>> ELSE SubSeq(s, 1, SetMax(other))

\* replace(/\n{3,}/g, "\n\n")
CollapseNewlines(s) ==
    AtPositions(s, { i \in 1 .. Len(s) : ~(i > 2 /\ s[i] = NL /\ s[i - 1] = NL /\ s[i - 2] = NL) })

\* `![Cover Image](${thumbnail})`
CoverLine(thumbnail) == <<"!", "[", "Cover", SP, "Image", "]", "(", thumbnail, ")">>

\* upsertCoverImage(content, thumbnail)
UpsertCoverImage(content, thumbnail) ==
    LET normalizedOriginal == NormalizeNewlines(content)
        withoutImages == RemoveImages(normalizedOriginal)
        trimmedLeading == TrimLeadingNewlines(withoutImages)
        trimmedTrailing == TrimTrailingWhite(trimmedLeading)
        joined == IF Len(trimmedTrailing) > 0
                  THEN CoverLine(thumbnail) \o <<NL, NL>> \o trimmedTrailing
                  ELSE CoverLine(thumbnail)
        collapsed == CollapseNewlines(joined)
        finalContent == IF collapsed[Len(collapsed)] # NL THEN collapsed \o <<NL>> ELSE collapsed
    IN  [text |-> finalContent, changed |-> finalContent # normalizedOriginal]

\* thumbnails the catalog returns, each one token
Thumbnails == {"co1.jpg", "co2.jpg"}

\* the pieces a note's body is made of
BodyPieces ==
    { <<"!">>, <<"!", "[", "alt", "]", "(", "pic.png", ")">>, <<"[", "alt", "]", "(", "pic.png", ")">>,
      <<NL>>, <<NL, NL, NL>>, <<CR, NL>>, <<SP>>, <<"Hello">>, CoverLine("co1.jpg") }

InitCover ==
    /\ \E len \in 0 .. MaxPieces :
          \E c \in [1 .. len -> BodyPieces] :
             coverCall = [pc |-> "called", content |-> Concat(c), thumbnail |-> "co1.jpg"]
    /\ QueryIdle
    /\ BatchIdle
    /\ CreateIdle
    /\ clock = 0
    /\ DocIdle
    /\ ClientIdle
    /\ CredIdle

\* upsertCoverImage(content, thumbnail)
UpsertCover ==
    /\ coverCall.pc = "called"
    /\ coverCall' = [pc |-> "upserted", content |-> coverCall.content, thumbnail |-> coverCall.thumbnail,
                 first |-> UpsertCoverImage(coverCall.content, coverCall.thumbnail)]
    /\ UNCHANGED <<docVars, clientVars, credVars, query, batchVars, createVars, clock>>

\* upsertCoverImage applied to the text it returned
UpsertCoverAgain ==
    /\ coverCall.pc = "upserted"
    /\ coverCall' = [pc |-> "again", content |-> coverCall.content, thumbnail |-> coverCall.thumbnail,
                 first |-> coverCall.first,
                 second |-> UpsertCoverImage(coverCall.first.text, coverCall.thumbnail)]
    /\ UNCHANGED <<docVars, clientVars, credVars, query, batchVars, createVars, clock>>

NextCover ==
    \/ UpsertCover
    \/ UpsertCoverAgain

SpecCover == InitCover /\ [][NextCover]_vars

(* ---------------------- properties of the cover line ------------------ *)

\* the positions of s where a markdown image tag starts
ImageTags(s) == { i \in 1 .. Len(s) : ImageEnd(s, i) # 0 }

HasNewlineRun(s) == \E i \in 3 .. Len(s) : s[i] = NL /\ s[i - 1] = NL /\ s[i - 2] = NL

\* C30: the text upsertCoverImage returns starts with the cover line of the
\* thumbnail, has no other image tag, has no run of three or more newlines
\* and ends with a newline; applied to its own output with the same
\* thumbnail it returns the same text and changed = false.
C30_CoverNormalForm ==
    /\ coverCall.pc \in {"upserted", "again"} =>
          LET t == coverCall.first.text
          IN  /\ StartsWith(t, CoverLine(coverCall.thumbnail))
              /\ ImageTags(t) = {1}
              /\ ~HasNewlineRun(t)
              /\ t[Len(t)] = NL
    /\ coverCall.pc = "again" =>
          /\ coverCall.second.text = coverCall.first.text
          /\ ~coverCall.second.changed

(* ------------------ main.ts: refreshing the thumbnails ---------------- *)

\* children of the games folder
MaxChildren == 2
\* milliseconds the clock advances in one step of a refresh
BatchTickMs == 1000
\* the clock of a refresh stops advancing at this time
MaxBatchClock == 3000

TFile(basename, extension) == [t |-> "file", basename |-> basename, extension |-> extension]
TFolder(children) == [t |-> "folder", children |-> children]

\* a note the plugin wrote at an earlier refresh: the thumbnail in the
\* metadata, the cover line, the text
NoteCurrent ==
    BlockDocument(<< <<"thumbnail", ":", SP, "co1.jpg">> >>,
                  <<NL, NL>> \o CoverLine("co1.jpg") \o <<NL, NL, "Hello", NL>>)
\* a note with a status and no thumbnail
NoteWithStatus ==
    BlockDocument(<< <<"status", ":", SP, "backlog">> >>, <<NL, NL, "Hello", NL>>)
\* a note whose block holds only a comment: its metadata reads as null
NoteCommentOnly == BlockDocument(<< <<"#", "note">> >>, <<NL, "Hello">>)
\* a note without a block
NotePlain == <<"Hello", NL>>

\* the text of the note with the given basename
NoteText(basename) ==
    CASE basename = <<"Halo">> -> NoteCurrent
      [] basename = <<"Doom">> -> NoteWithStatus
      [] basename = <<"Quake">> -> NoteCommentOnly
      [] OTHER -> NotePlain

\* what the games folder can hold: notes, a note whose basename is blank, a
\* file that is not markdown, a folder with a note in it
ChildKinds ==
    { TFile(<<"Halo">>, "md"), TFile(<<"Doom">>, "md"), TFile(<<SP>>, "md"),
      TFile(<<"cover">>, "png"), TFolder(<< TFile(<<"Quake">>, "md") >>) }

RECURSIVE CollectFrom(_, _)
\* collectMarkdownFiles: the folders still to visit and the files found
CollectFrom(stack, files) ==
    IF stack = <<>> THEN files
    ELSE LET current == stack[Len(stack)]
             isFolder(child) == child.t = "folder"
             isMarkdown(child) == child.t = "file" /\ child.extension = "md"
         IN  CollectFrom(SubSeq(stack, 1, Len(stack) - 1) \o SelectSeq(current.children, isFolder),
                         files \o SelectSeq(current.children, isMarkdown))

\* collectMarkdownFiles without the descent into the folders below
CollectMarkdownFilesTopLevel(folder) ==
    SelectSeq(folder.children, LAMBDA child : child.t = "file" /\ child.extension = "md")
\* collectMarkdownFiles(folder)
CollectMarkdownFiles(folder) == CollectFrom(<<folder>>, <<>>)

\* resolveGameName(file).trim()
ResolveGameName(noteFile) == Trim(noteFile.basename)

\* data.frontmatter?.[key]
FrontmatterKey(fm, key) ==
    CASE fm.t = "map" /\ PairIndex(fm.pairs, key) # {} ->
            fm.pairs[CHOOSE i \in PairIndex(fm.pairs, key) : TRUE].v
      [] fm.t = "seq" /\ PairIndex(fm.props, key) # {} ->
            fm.props[CHOOSE i \in PairIndex(fm.props, key) : TRUE].v
      [] OTHER -> JsUndefined

\* the data of the note with the new thumbnail in its frontmatter and the
\* body whose cover image was upserted
UpdatedNote(parsed, upserted, nextThumbnail) ==
    [parsed EXCEPT
        !.frontmatter = AssignKey(parsed.frontmatter, "thumbnail", nextThumbnail),
        !.content = upserted.text]

\* updateGameNoteThumbnail from its comparison of the thumbnails on: the note
\* is unchanged, or the assignment or the conversion throws, or it is written
UpdateOutcome(parsed, upserted, edited, nextThumbnail, strict) ==
    IF /\ (IF FrontmatterKey(parsed.frontmatter, "thumbnail").t = "str"
           THEN FrontmatterKey(parsed.frontmatter, "thumbnail")
           ELSE JsNull) = nextThumbnail
       /\ ~upserted.changed
    THEN [status |-> "unchanged", markdown |-> <<>>]
    ELSE IF AssignThrows(parsed.frontmatter, strict) \/ ConvertThrows(edited)
    THEN [status |-> "threw", markdown |-> <<>>]
    ELSE [status |-> "writing", markdown |-> ConvertToMarkdown(edited)]

\* updateGameNoteThumbnail after its lookup: what it returns for the text it
\* read and the metadata it received, and the text it writes
ThumbnailUpdate(raw, metadata, strict) ==
    IF metadata = JsNull THEN [status |-> "skipped", markdown |-> <<>>]
    ELSE IF metadata.thumbnail = JsNull THEN [status |-> "skipped", markdown |-> <<>>]
    ELSE LET parsed == ExtractFrontmatter(raw)
             upserted == UpsertCoverImage(parsed.content, metadata.thumbnail.v)
         IN  UpdateOutcome(parsed, upserted,
                           UpdatedNote(parsed, upserted, metadata.thumbnail),
                           metadata.thumbnail, strict)

\* what one search request of a lookup comes to: a failure that says too many
\* requests, no metadata, metadata without a cover, metadata with a cover
Throttled == [kind |-> "throttled"]
Answer(metadata) == [kind |-> "answer", metadata |-> metadata]
LookupAnswers ==
    { Throttled, Answer(JsNull), Answer(GameMetadata(JsNull, JsStr(<<"Halo">>))),
      Answer(GameMetadata(JsStr("co1.jpg"), JsStr(<<"Halo">>))) }

\* the expires_in, in seconds, of the token a refresh obtains
BatchExpiresIn == {2, 3600}
BatchTokenOutcomes ==
    { Response(200, JsonObject(JsStr(<<"tok1">>), JsNum(e)),
               TokenText(JsStr(<<"tok1">>), JsNum(e))) : e \in BatchExpiresIn }
    \cup { Response(401, ErrorObject, ErrorText) }

\* a call of updateGameNoteThumbnail that was not made yet
NoJob ==
    [pc |-> "none", starts |-> 0, raw |-> <<>>, readVersion |-> 0, attempt |-> 0,
     wakeAt |-> 0, metadata |-> JsUndefined, status |-> "none", markdown |-> <<>>]

\* updateGameNoteThumbnail(file, accessToken) up to its await of vault.read
StartedJob(job) == [job EXCEPT !.pc = "reading", !.starts = @ + 1]

\* the loop of the refresh command goes on after the call it awaits returned
AwaitedAtOnce(js, i) == TRUE
Awaited(js, i) == js[i].pc \in {"returned", "threw"}

\* the plugin is loaded, the vault holds the notes of the games folder
InitBatch ==
    /\ \/ tree = JsNull
       \/ tree = TFile(<<"games">>, "")
       \/ \E len \in 0 .. MaxChildren :
             \E c \in [1 .. len -> ChildKinds] :
                /\ \A m, n \in 1 .. len : m # n => c[m] # c[n]
                /\ tree = TFolder(c)
    /\ notes = IF tree.t = "folder"
               THEN [ b \in { CollectMarkdownFiles(tree)[n].basename :
                                 n \in 1 .. Len(CollectMarkdownFiles(tree)) } |-> NoteText(b) ]
               ELSE <<>>
    /\ batch = [pc |-> "idle"]
    /\ jobs = <<>>
    /\ requests = <<>>
    /\ statusCall = [pc |-> "none"]
    /\ written = <<>>
    /\ settings \in [igdbClientId : {<<>>, <<"id1">>}, igdbClientSecret : {<<"s1">>}]
    /\ igdbToken = JsNull
    /\ ensure = <<>>
    /\ setter = [pc |-> "idle", changes |-> 0, failed |-> FALSE]
    /\ issued = <<>>
    /\ cleared = FALSE
    /\ clock = 0
    /\ QueryIdle
    /\ CoverIdle
    /\ CreateIdle
    /\ DocIdle
    /\ ClientIdle

\* refreshGameThumbnailsCommand up to its await of ensureIgdbAccessToken, and
\* ensureIgdbAccessToken up to its token request
RefreshGameThumbnailsCommand ==
    /\ batch.pc = "idle"
    /\ IF Len(settings.igdbClientId) = 0 \/ Len(settings.igdbClientSecret) = 0
       THEN batch' = [pc |-> "returned", reason |-> "credentials", files |-> <<>>]
       ELSE IF tree = JsNull
       THEN batch' = [pc |-> "returned", reason |-> "no folder", files |-> <<>>]
       ELSE IF tree.t # "folder"
       THEN batch' = [pc |-> "returned", reason |-> "not a folder", files |-> <<>>]
       ELSE IF Len(CollectMarkdownFiles(tree)) = 0
       THEN batch' = [pc |-> "returned", reason |-> "no notes", files |-> <<>>]
       ELSE batch' = [pc |-> "token", files |-> CollectMarkdownFiles(tree), now |-> clock]
    /\ UNCHANGED <<tree, notes, jobs, requests, statusCall, written>>
    /\ UNCHANGED <<docVars, clientVars, credVars, query, coverCall, createVars, clock>>

\* the token request comes back with o: ensureIgdbAccessToken caches and
\* returns the token, and the command starts its loop with the first file;
\* without a token the command returns
BatchTokenResponse(o) ==
    /\ batch.pc = "token"
    /\ LET token == TokenOf(o)
       IN  IF token = JsNull
           THEN /\ batch' = [pc |-> "returned", reason |-> "no token", files |-> batch.files]
                /\ UNCHANGED <<igdbToken, issued, jobs>>
           ELSE /\ igdbToken' = [value |-> token.accessToken,
                                 expiresAt |-> batch.now + MathMax(0, token.expiresIn - 60) * 1000]
                /\ issued' = Append(issued,
                        [value |-> token.accessToken, clientId |-> settings.igdbClientId,
                         clientSecret |-> settings.igdbClientSecret, at |-> clock,
                         expiresIn |-> token.expiresIn])
                /\ batch' = [pc |-> "loop", files |-> batch.files, index |-> 1,
                             accessToken |-> token.accessToken,
                             updated |-> 0, unchanged |-> 0, skipped |-> 0]
                /\ jobs' = [ n \in 1 .. Len(batch.files) |->
                               IF n = 1 THEN StartedJob(NoJob) ELSE NoJob ]
    /\ UNCHANGED <<tree, notes, requests, statusCall, written>>
    /\ UNCHANGED <<settings, ensure, setter, cleared>>
    /\ UNCHANGED <<docVars, clientVars, query, coverCall, createVars, clock>>

\* vault.read of call i resolves; updateGameNoteThumbnail returns 'skipped'
\* for a blank name and sends the first search request otherwise
ReadResolves(i) ==
    /\ jobs[i].pc = "reading"
    /\ LET noteFile == batch.files[i]
       IN  IF Len(ResolveGameName(noteFile)) = 0
           THEN /\ jobs' = [jobs EXCEPT ![i].pc = "returned", ![i].status = "skipped",
                                        ![i].raw = notes[noteFile.basename],
                                        ![i].readVersion = Len(written)]
                /\ UNCHANGED requests
           ELSE /\ jobs' = [jobs EXCEPT ![i].pc = "lookup", ![i].attempt = 1,
                                        ![i].raw = notes[noteFile.basename],
                                        ![i].readVersion = Len(written)]
                /\ requests' = Append(requests,
                        [job |-> i, at |-> clock, accessToken |-> batch.accessToken])
    /\ UNCHANGED <<tree, notes, batch, statusCall, written>>
    /\ UNCHANGED <<docVars, clientVars, credVars, query, coverCall, createVars, clock>>

\* vault.read of call i rejects
ReadFails(i) ==
    /\ jobs[i].pc = "reading"
    /\ jobs' = [jobs EXCEPT ![i].pc = "threw"]
    /\ UNCHANGED <<tree, notes, batch, requests, statusCall, written>>
    /\ UNCHANGED <<docVars, clientVars, credVars, query, coverCall, createVars, clock>>

\* the search request of call i comes back: a delay when it says too many
\* requests and attempts are left; otherwise the metadata decides between
\* 'skipped', 'unchanged', an exception and the write
LookupResponse(i, answer, strict) ==
    /\ jobs[i].pc = "lookup"
    /\ IF answer = Throttled /\ jobs[i].attempt < IGDB_MAX_RETRIES
       THEN jobs' = [jobs EXCEPT ![i].pc = "delaying",
                                 ![i].wakeAt = clock + BackoffDelay(jobs[i].attempt)]
       ELSE \E metadata \in { IF answer = Throttled THEN JsNull ELSE answer.metadata } :
            \E update \in { ThumbnailUpdate(jobs[i].raw, metadata, strict) } :
               jobs' = [jobs EXCEPT
                          ![i].pc = IF update.status \in {"writing", "threw"}
                                    THEN update.status ELSE "returned",
                          ![i].status = IF update.status \in {"writing", "threw"}
                                        THEN "none" ELSE update.status,
                          ![i].metadata = metadata,
                          ![i].markdown = update.markdown]
    /\ UNCHANGED <<tree, notes, batch, requests, statusCall, written>>
    /\ UNCHANGED <<docVars, clientVars, credVars, query, coverCall, createVars, clock>>

\* the delay of call i is over: the next attempt sends its request
BatchDelayElapsed(i) ==
    /\ jobs[i].pc = "delaying"
    /\ clock >= jobs[i].wakeAt
    /\ jobs' = [jobs EXCEPT ![i].pc = "lookup", ![i].attempt = @ + 1]
    /\ requests' = Append(requests, [job |-> i, at |-> clock, accessToken |-> batch.accessToken])
    /\ UNCHANGED <<tree, notes, batch, statusCall, written>>
    /\ UNCHANGED <<docVars, clientVars, credVars, query, coverCall, createVars, clock>>

\* vault.modify of call i resolves: the note holds the text the call computed
WriteResolves(i) ==
    /\ jobs[i].pc = "writing"
    /\ notes' = [notes EXCEPT ![batch.files[i].basename] = jobs[i].markdown]
    /\ written' = Append(written,
            [by |-> "updateGameNoteThumbnail", note |-> batch.files[i].basename,
             readVersion |-> jobs[i].readVersion, version |-> Len(written)])
    /\ jobs' = [jobs EXCEPT ![i].pc = "returned", ![i].status = "updated"]
    /\ UNCHANGED <<tree, batch, requests, statusCall>>
    /\ UNCHANGED <<docVars, clientVars, credVars, query, coverCall, createVars, clock>>

\* vault.modify of call i rejects
WriteFails(i) ==
    /\ jobs[i].pc = "writing"
    /\ jobs' = [jobs EXCEPT ![i].pc = "threw"]
    /\ UNCHANGED <<tree, notes, batch, requests, statusCall, written>>
    /\ UNCHANGED <<docVars, clientVars, credVars, query, coverCall, createVars, clock>>

\* the loop of refreshGameThumbnailsCommand after the call it awaited: the
\* result is counted (an exception as skipped), then the next file is
\* started or the summary is shown
LoopStep ==
    /\ batch.pc = "loop"
    /\ Awaited(jobs, batch.index)
    /\ LET job == jobs[batch.index]
           isUpdated == job.pc = "returned" /\ job.status = "updated"
           isUnchanged == job.pc = "returned" /\ job.status = "unchanged"
           counted == [batch EXCEPT
                          !.updated = @ + (IF isUpdated THEN 1 ELSE 0),
                          !.unchanged = @ + (IF isUnchanged THEN 1 ELSE 0),
                          !.skipped = @ + (IF isUpdated \/ isUnchanged THEN 0 ELSE 1)]
       IN  IF batch.index < Len(batch.files)
           THEN /\ batch' = [counted EXCEPT !.index = @ + 1]
                /\ jobs' = [jobs EXCEPT ![batch.index + 1] = StartedJob(@)]
           ELSE /\ batch' = [counted EXCEPT !.pc = "done"]
                /\ UNCHANGED jobs
    /\ UNCHANGED <<tree, notes, requests, statusCall, written>>
    /\ UNCHANGED <<docVars, clientVars, credVars, query, coverCall, createVars, clock>>

\* time passes while a request or a delay is pending
TickBatch ==
    /\ \/ batch.pc = "token"
       \/ \E i \in 1 .. Len(jobs) : jobs[i].pc \in {"lookup", "delaying"}
    /\ \/ clock < MaxBatchClock
       \/ \E i \in 1 .. Len(jobs) : jobs[i].pc = "delaying" /\ clock < jobs[i].wakeAt
    /\ clock' = clock + BatchTickMs
    /\ UNCHANGED <<docVars, clientVars, credVars, pluginVars>>

NextBatch ==
    \/ RefreshGameThumbnailsCommand
    \/ \E o \in BatchTokenOutcomes : BatchTokenResponse(o)
    \/ \E i \in 1 .. Len(jobs) : ReadResolves(i)
    \/ \E i \in 1 .. Len(jobs) : ReadFails(i)
    \/ \E i \in { n \in 1 .. Len(jobs) : jobs[n].pc = "lookup" } : \E answer \in LookupAnswers :
          \E strict \in StrictModes(ExtractFrontmatter(jobs[i].raw).frontmatter) :
             LookupResponse(i, answer, strict)
    \/ \E i \in 1 .. Len(jobs) : BatchDelayElapsed(i)
    \/ \E i \in 1 .. Len(jobs) : WriteResolves(i)
    \/ \E i \in 1 .. Len(jobs) : WriteFails(i)
    \/ LoopStep
    \/ TickBatch

SpecBatch == InitBatch /\ [][NextBatch]_vars

(* -------------- main.ts: a refresh and setStatus on one note ---------- *)

\* the texts the note can hold when the two handlers start
NoteTexts == {NoteWithStatus, NoteCurrent, NotePlain}

\* the active note is in the games folder, a token was obtained, and
\* refreshCurrentGameThumbnailCommand has called updateGameNoteThumbnail
InitNote ==
    /\ tree = TFolder(<< TFile(<<"Doom">>, "md") >>)
    /\ \E text \in NoteTexts : notes = [ b \in { <<"Doom">> } |-> text ]
    /\ batch = [pc |-> "current", files |-> << TFile(<<"Doom">>, "md") >>, index |-> 1,
                accessToken |-> JsStr(<<"tok1">>)]
    /\ jobs = << StartedJob(NoJob) >>
    /\ requests = <<>>
    /\ statusCall = [pc |-> "idle"]
    /\ written = <<>>
    /\ settings = [igdbClientId |-> <<"id1">>, igdbClientSecret |-> <<"s1">>]
    /\ igdbToken = [value |-> JsStr(<<"tok1">>), expiresAt |-> 3540000]
    /\ ensure = <<>>
    /\ setter = [pc |-> "idle", changes |-> 0, failed |-> FALSE]
    /\ issued = << [value |-> JsStr(<<"tok1">>), clientId |-> <<"id1">>,
                    clientSecret |-> <<"s1">>, at |-> 0, expiresIn |-> 3600] >>
    /\ cleared = FALSE
    /\ clock = 0
    /\ QueryIdle
    /\ CoverIdle
    /\ CreateIdle
    /\ DocIdle
    /\ ClientIdle

\* setStatus(status) up to its await of vault.read
SetStatusCalled(status, date) ==
    /\ statusCall.pc = "idle"
    /\ statusCall' = [pc |-> "reading", status |-> status, date |-> date,
                      duringLookup |-> jobs[1].pc \in {"lookup", "delaying"},
                      readVersion |-> 0, markdown |-> <<>>]
    /\ UNCHANGED <<tree, notes, batch, jobs, requests, written>>
    /\ UNCHANGED <<docVars, clientVars, credVars, query, coverCall, createVars, clock>>

\* vault.read of setStatus resolves: the two keys are assigned and the text
\* is serialized, up to the await of vault.modify
SetStatusReadResolves(strict) ==
    /\ statusCall.pc = "reading"
    /\ LET parsed == ExtractFrontmatter(notes[batch.files[1].basename])
           edited == StatusData(parsed, statusCall.status, statusCall.date)
       IN  IF AssignThrows(parsed.frontmatter, strict) \/ ConvertThrows(edited)
           THEN statusCall' = [statusCall EXCEPT !.pc = "threw"]
           ELSE statusCall' = [statusCall EXCEPT !.pc = "writing",
                                                 !.readVersion = Len(written),
                                                 !.markdown = ConvertToMarkdown(edited)]
    /\ UNCHANGED <<tree, notes, batch, jobs, requests, written>>
    /\ UNCHANGED <<docVars, clientVars, credVars, query, coverCall, createVars, clock>>

\* vault.modify of setStatus resolves
SetStatusWriteResolves ==
    /\ statusCall.pc = "writing"
    /\ notes' = [notes EXCEPT ![batch.files[1].basename] = statusCall.markdown]
    /\ written' = Append(written,
            [by |-> "setStatus", note |-> batch.files[1].basename,
             readVersion |-> statusCall.readVersion, version |-> Len(written)])
    /\ statusCall' = [statusCall EXCEPT !.pc = "written"]
    /\ UNCHANGED <<tree, batch, jobs, requests>>
    /\ UNCHANGED <<docVars, clientVars, credVars, query, coverCall, createVars, clock>>

NextNote ==
    \/ ReadResolves(1)
    \/ ReadFails(1)
    \/ \E answer \in LookupAnswers :
          \E strict \in StrictModes(ExtractFrontmatter(jobs[1].raw).frontmatter) :
             LookupResponse(1, answer, strict)
    \/ BatchDelayElapsed(1)
    \/ WriteResolves(1)
    \/ WriteFails(1)
    \/ \E status \in StatusNames, date \in FormattedDates : SetStatusCalled(status, date)
    \/ \E strict \in StrictModes(ExtractFrontmatter(notes[batch.files[1].basename]).frontmatter) :
          SetStatusReadResolves(strict)
    \/ SetStatusWriteResolves
    \/ TickBatch

SpecNote == InitNote /\ [][NextNote]_vars

(* ----------------------- properties of the refresh -------------------- *)

\* a call of updateGameNoteThumbnail that has started and not yet finished
InProcess(job) == job.pc \in {"reading", "lookup", "delaying", "writing"}

\* C22: during refreshGameThumbnailsCommand at most one file is being
\* processed at any moment: the call for file i+1 has not started before the
\* call for file i has finished, and one refresh never has two search
\* requests or two delays pending.
C22_SequentialBatch ==
    batch.pc \in {"loop", "done"} =>
        /\ Cardinality({ i \in 1 .. Len(jobs) : InProcess(jobs[i]) }) <= 1
        /\ \A i \in 1 .. Len(jobs) - 1 :
              jobs[i + 1].pc # "none" => jobs[i].pc \in {"returned", "threw"}
        /\ Cardinality({ i \in 1 .. Len(jobs) : jobs[i].pc = "lookup" }) <= 1
        /\ Cardinality({ i \in 1 .. Len(jobs) : jobs[i].pc = "delaying" }) <= 1

C22_Witness ==
    /\ batch.pc = "loop"
    /\ Len(jobs) = 2
    /\ jobs[1].pc = "returned" /\ jobs[1].status = "updated" /\ jobs[1].attempt = 2
    /\ jobs[2].pc = "delaying"

\* C24: when the 'thumbnail' of a note's metadata equals the thumbnail the
\* catalog returned and the body of the note is the cover line of that
\* thumbnail followed by text without another image tag, the call of
\* updateGameNoteThumbnail returns 'unchanged' and does not write the note.
AlreadyCurrent(raw, thumbnail) ==
    /\ FrontmatterKey(ExtractFrontmatter(raw).frontmatter, "thumbnail") = thumbnail
    /\ StartsWith(ExtractFrontmatter(raw).content, CoverLine(thumbnail.v))
    /\ ImageTags(ExtractFrontmatter(raw).content) = {1}

C24_AlreadyCurrent ==
    \A i \in 1 .. Len(jobs) :
        ( /\ jobs[i].metadata \notin {JsUndefined, JsNull}
          /\ jobs[i].metadata.thumbnail # JsNull
          /\ AlreadyCurrent(jobs[i].raw, jobs[i].metadata.thumbnail) )
        => jobs[i].pc = "returned" /\ jobs[i].status = "unchanged"

\* C25: every search request is sent with a token whose declared expiry
\* (acquisition time + expires_in) has not passed when the request is sent.
C25_NoExpiredCredential ==
    \A n \in 1 .. Len(requests) :
        requests[n].at <= DeclaredExpiry([value |-> requests[n].accessToken])

RECURSIVE MarkdownUnder(_)
\* the basenames of the markdown files in a folder and the folders below it
MarkdownUnder(node) ==
    CASE node.t = "file" -> IF node.extension = "md" THEN {node.basename} ELSE {}
      [] node.t = "folder" -> UNION { MarkdownUnder(node.children[n]) : n \in 1 .. Len(node.children) }
      [] OTHER -> {}

\* the calls of updateGameNoteThumbnail made for the note with this basename
CallsFor(basename) ==
    { i \in 1 .. Len(jobs) : batch.files[i].basename = basename }

\* every markdown file under the games folder was processed once, the three
\* counters are the numbers of calls that ended as updated, as unchanged, and
\* as skipped or with an exception, and they add up to the number of files
Accounted ==
    /\ \A b \in MarkdownUnder(tree) :
          /\ Cardinality(CallsFor(b)) = 1
          /\ \A i \in CallsFor(b) : jobs[i].starts = 1 /\ jobs[i].pc \in {"returned", "threw"}
    /\ batch.pc = "done"
    /\ Len(batch.files) = Cardinality(MarkdownUnder(tree))
    /\ batch.updated + batch.unchanged + batch.skipped = Len(batch.files)
    /\ batch.updated = Cardinality({ i \in 1 .. Len(jobs) : jobs[i].status = "updated" })
    /\ batch.unchanged = Cardinality({ i \in 1 .. Len(jobs) : jobs[i].status = "unchanged" })
    /\ batch.skipped = Cardinality({ i \in 1 .. Len(jobs) :
                                        jobs[i].status = "skipped" \/ jobs[i].pc = "threw" })

\* C28 as stated: whenever refreshGameThumbnailsCommand has finished, every
\* markdown file under the games folder was processed exactly once and
\* updated + unchanged + skipped is the number of files.
C28_BatchAccounting ==
    batch.pc \in {"done", "returned"} => (MarkdownUnder(tree) # {} => Accounted)

\* C28: when refreshGameThumbnailsCommand has obtained a token and has
\* finished, every markdown file under the games folder was processed exactly
\* once, updated + unchanged + skipped is the number of files, and a call that
\* raised an exception is counted as skipped and the files after it were
\* processed.
C28_BatchAccountingWithToken ==
    (batch.pc \in {"done", "returned"} /\ Len(issued) > 0) => Accounted

C28_Witness ==
    /\ batch.pc = "done"
    /\ Len(jobs) = 2
    /\ jobs[1].pc = "threw"
    /\ jobs[2].status = "updated"
    /\ batch.skipped = 1 /\ batch.updated = 1

\* C23: read-modify-write cycles on one note are serialized: no cycle writes
\* a text computed from a read that was made before another cycle's write to
\* the note, and a status set while a refresh of the note waits on its lookup
\* is still in the note after the refresh has written.
C23_NoLostUpdate ==
    /\ \A n \in 1 .. Len(written) : written[n].readVersion = written[n].version
    /\ ( /\ statusCall.pc = "written"
         /\ statusCall.duringLookup
         /\ jobs[1].pc = "returned"
         /\ jobs[1].status = "updated" )
       => FrontmatterKey(ExtractFrontmatter(notes[batch.files[1].basename]).frontmatter, "status")
             = JsStr(statusCall.status)

(* ------------------------ main.ts: creating a note -------------------- *)

\* the functions that create a note: createGameFile, createItemFile, and the
\* createItemFile of src/main.ts, which tests the path before its lookup
CreateFunctions == {"createGameFile", "createItemFile", "createItemFile (main.ts)"}

\* itemType.folder
ItemFolders == {"games", "books"}

\* the names and the statuses the modal passes
ItemNames == { <<SP>>, <<"Halo">>, <<"Halo", SP>>, <<"Halo", ":", "2">> }
ItemStatuses == { <<"backlog">>, <<SP>> }

\* value.trim().replace(/[\\/:<>"|?*]/g, "-")
SanitizeName(value) ==
    [ i \in 1 .. Len(Trim(value)) |->
        IF Trim(value)[i] \in {"\\", "/", ":", "<", ">", "\"", "|", "?", "*"}
        THEN HY ELSE Trim(value)[i] ]

\* `${folderPath}/${sanitizedName}.md`
FilePath(folderPath, sanitizedName) == <<folderPath, "/">> \o sanitizedName \o <<".md">>

\* what the lookup of createItemFile returns
CreateLookups ==
    { JsNull, GameMetadata(JsStr("co1.jpg"), JsStr(<<"Halo">>)),
      GameMetadata(JsNull, JsStr(<<SP>>)) }

\* vault.getAbstractFileByPath(filePath)
PathExists(path) == path \in vaultFiles

\* vault.create(filePath, content) is called
CallCreate(cr, path) ==
    [cr EXCEPT !.pc = "creating", !.path = path, !.existed = PathExists(path)]

\* the test of the path, then the call of vault.create
CheckThenCreate(cr, path) ==
    IF PathExists(path) THEN [cr EXCEPT !.pc = "returned", !.reason = "exists"]
    ELSE CallCreate(cr, path)

\* the path of the note: createItemFile prefers the canonical name of the
\* metadata when it is not blank
DisplayName(cr, metadata) ==
    IF cr.fn = "createItemFile" /\ metadata # JsNull /\ metadata.canonicalName # JsNull
       /\ Len(Trim(metadata.canonicalName.v)) > 0
    THEN Trim(metadata.canonicalName.v)
    ELSE Trim(cr.itemName)

NotePath(cr, metadata) ==
    FilePath(cr.folder,
             IF Len(SanitizeName(DisplayName(cr, metadata))) > 0
             THEN SanitizeName(DisplayName(cr, metadata))
             ELSE SanitizeName(Trim(cr.itemName)))

\* the call from the point where its lookup is over (or was not made)
AfterLookup(cr, metadata) ==
    IF cr.fn = "createItemFile (main.ts)"
    THEN CallCreate(cr, NotePath(cr, metadata))
    ELSE CheckThenCreate(cr, NotePath(cr, metadata))

\* the call from the point where the folder exists up to its next await
AfterFolder(cr) ==
    CASE cr.fn = "createGameFile" -> CheckThenCreate(cr, NotePath(cr, JsNull))
      [] cr.fn = "createItemFile" ->
            IF cr.folder = "games" THEN [cr EXCEPT !.pc = "token"] ELSE AfterLookup(cr, JsNull)
      [] OTHER ->
            IF PathExists(NotePath(cr, JsNull)) THEN [cr EXCEPT !.pc = "returned", !.reason = "exists"]
            ELSE IF cr.folder = "games" THEN [cr EXCEPT !.pc = "token"]
            ELSE AfterLookup(cr, JsNull)

NewCall(fn, folder, itemName, status) ==
    [fn |-> fn, folder |-> folder, itemName |-> itemName, status |-> status,
     pc |-> "called", reason |-> "none", path |-> <<>>, existed |-> FALSE]

\* two calls that create a note are about to run, the second for "Halo"
InitCreate ==
    /\ vaultFolder \in {"absent", "folder", "file"}
    /\ vaultFiles \in IF vaultFolder = "folder"
                      THEN { {}, { FilePath("games", <<"Halo">>), FilePath("books", <<"Halo">>) } }
                      ELSE { {} }
    /\ \E fn \in CreateFunctions, folder \in ItemFolders, n \in ItemNames, st \in ItemStatuses :
          /\ fn = "createGameFile" => folder = "games"
          /\ creates = << NewCall(fn, folder, n, st), NewCall(fn, folder, <<"Halo">>, <<"backlog">>) >>
    /\ clock = 0
    /\ QueryIdle
    /\ CoverIdle
    /\ BatchIdle
    /\ DocIdle
    /\ ClientIdle
    /\ CredIdle

\* the call up to its first await: the guards on the name, the status and
\* the folder, then the part that follows when the folder exists
CreateItemFile(c) ==
    /\ creates[c].pc = "called"
    /\ LET cr == creates[c]
       IN  IF Len(Trim(cr.itemName)) = 0
           THEN creates' = [creates EXCEPT ![c].pc = "returned", ![c].reason = "empty name"]
           ELSE IF Len(Trim(cr.status)) = 0
           THEN creates' = [creates EXCEPT ![c].pc = "returned", ![c].reason = "empty status"]
           ELSE IF vaultFolder = "absent"
           THEN creates' = [creates EXCEPT ![c].pc = "folder"]
           ELSE IF vaultFolder = "file"
           THEN creates' = [creates EXCEPT ![c].pc = "returned", ![c].reason = "not a folder"]
           ELSE creates' = [creates EXCEPT ![c] = AfterFolder(cr)]
    /\ UNCHANGED <<vaultFolder, vaultFiles>>
    /\ UNCHANGED <<docVars, clientVars, credVars, query, coverCall, batchVars, clock>>

\* vault.createFolder resolves, or rejects because the folder exists by now
FolderCreated(c) ==
    /\ creates[c].pc = "folder"
    /\ IF vaultFolder = "absent"
       THEN /\ vaultFolder' = "folder"
            /\ creates' = [creates EXCEPT ![c] = AfterFolder(creates[c])]
       ELSE /\ creates' = [creates EXCEPT ![c].pc = "threw"]
            /\ UNCHANGED vaultFolder
    /\ UNCHANGED vaultFiles
    /\ UNCHANGED <<docVars, clientVars, credVars, query, coverCall, batchVars, clock>>

\* ensureIgdbAccessToken resolves: with a token the lookup is sent
TokenResolved(c, hasToken) ==
    /\ creates[c].pc = "token"
    /\ creates' = [creates EXCEPT ![c] = IF hasToken THEN [@ EXCEPT !.pc = "lookup"]
                                         ELSE AfterLookup(@, JsNull)]
    /\ UNCHANGED <<vaultFolder, vaultFiles>>
    /\ UNCHANGED <<docVars, clientVars, credVars, query, coverCall, batchVars, clock>>

\* the lookup resolves
LookupResolved(c, metadata) ==
    /\ creates[c].pc = "lookup"
    /\ creates' = [creates EXCEPT ![c] = AfterLookup(@, metadata)]
    /\ UNCHANGED <<vaultFolder, vaultFiles>>
    /\ UNCHANGED <<docVars, clientVars, credVars, query, coverCall, batchVars, clock>>

\* vault.create resolves: the file exists from now on; it rejects when a
\* file is at the path by now
CreateResolved(c) ==
    /\ creates[c].pc = "creating"
    /\ IF creates[c].path \in vaultFiles
       THEN /\ creates' = [creates EXCEPT ![c].pc = "threw"]
            /\ UNCHANGED vaultFiles
       ELSE /\ creates' = [creates EXCEPT ![c].pc = "done"]
            /\ vaultFiles' = vaultFiles \cup {creates[c].path}
    /\ UNCHANGED vaultFolder
    /\ UNCHANGED <<docVars, clientVars, credVars, query, coverCall, batchVars, clock>>

NextCreate ==
    \/ \E c \in 1 .. Len(creates) : CreateItemFile(c)
    \/ \E c \in 1 .. Len(creates) : FolderCreated(c)
    \/ \E c \in 1 .. Len(creates) : \E hasToken \in BOOLEAN : TokenResolved(c, hasToken)
    \/ \E c \in 1 .. Len(creates) : \E metadata \in CreateLookups : LookupResolved(c, metadata)
    \/ \E c \in 1 .. Len(creates) : CreateResolved(c)

SpecCreate == InitCreate /\ [][NextCreate]_vars

(* ------------------- properties of creating a note -------------------- *)

\* C29: vault.create is never called for a path at which a file exists, in
\* every interleaving of the two calls; and a call whose trimmed name is
\* empty, whose trimmed status is empty, or whose folder path holds
\* something that is not a folder never calls vault.create.
C29_CreateOnlyFresh ==
    \A c \in 1 .. Len(creates) :
        /\ creates[c].path # <<>> => ~creates[c].existed
        /\ ( \/ Len(Trim(creates[c].itemName)) = 0
             \/ Len(Trim(creates[c].status)) = 0
             \/ vaultFolder = "file" )
           => creates[c].path = <<>> /\ creates[c].pc \in {"called", "returned"}

====
